---- MODULE Spec2Model ----
(***************************************************************************)
(* Model of the warehouse real-time processing repository.                 *)
(*                                                                         *)
(*  Spec / FairSpec : the processing pipeline process: the pipeline        *)
(*      manager's main thread (main.py), the inventory consumer worker     *)
(*      thread (base_consumer.py, inventory_consumer.py), the consumer     *)
(*      handle and the consumer group's committed offset                   *)
(*      (kafka_client.py), one partition of the input topic.               *)
(*  AlertSpec : the alert manager (alert_manager.py) with its coroutines   *)
(*      interleaving at their await points.                                *)
(*  AlertRunningSpec, RulesSpec : the alert manager observed from a        *)
(*      moment when alerts are active; one call of evaluate_rules.         *)
(*  StorageSpec, WindowSpec, MessageSpec, EnricherSpec, DetectorSpec,      *)
(*  ProducerSpec, ServiceSpec : the storage manager, a time window, one    *)
(*      message through process_message, the enricher, the anomaly         *)
(*      detector, the Kafka client's send_message, and the backend's       *)
(*      inventory service, each on its own.                                *)
(*  ProcessorSpec, WorkerPassSpec : InventoryProcessor.process on any map; *)
(*      one message through process_message and process_batch.             *)
(*  HandlesSpec : the consumer handles the pipeline process creates.       *)
(*  ConcurrentSpec : inventory service calls running at once.              *)
(*  OrderSpec : the backend's order service on one order.                  *)
(*                                                                         *)
(* Offsets are 0-based: the record at offset o is log[o + 1].  position    *)
(* and committed are "next offset to read", as in the bus.                 *)
(***************************************************************************)
EXTENDS Integers, Sequences, FiniteSets, Bags, TLC

VARIABLES
    \* ---- input topic and consumer group (the message bus)
    log,                \* records written to warehouse.inventory: a sequence of kinds
    committed,          \* offset committed for the consumer group, NoOffset when none
    \* ---- BaseConsumer / InventoryConsumer (worker thread)
    consumer,           \* self.consumer: "none" | "open" | "closed"
    position,           \* the consumer handle's fetch position, NoOffset before the first poll
    running,            \* BaseConsumer.running
    wpc,                \* where the worker thread is
    batch,              \* _consume_loop's local list `batch` (offsets)
    pack,               \* messages of the current poll result not yet iterated
    idx,                \* _process_batch: index of the next message of batch
    processed_messages, \* _process_batch's local list
    \* ---- ProcessingPipelineManager (main thread)
    mgrRunning,         \* ProcessingPipelineManager.running
    mpc,                \* where the main thread is
    handler,            \* whose _signal_handler is installed for SIGINT/SIGTERM
    \* ---- environment counters
    signals,            \* termination signals delivered so far
    restarts,           \* process restarts so far
    faults,             \* failed bus calls so far
    \* ---- history
    handled,            \* offsets handed to process_message, in the order of their first call
    sentProcessed,      \* offsets whose enriched record was sent to the processed topic
    sentAlerts,         \* offsets whose alert record was sent to the alerts topic
    lastCommit,         \* the batch of the last successful commit, NoCommit before it
    signalledRunning,   \* a signal reached this process while its main loop was running
    \* ---- AlertManager
    active_alerts,      \* AlertManager.active_alerts: id -> alert
    calls,              \* create_alert coroutines suspended in asyncio.gather
    sends,              \* bag of channel.send invocations
    min_notification_severity, \* config['min_notification_severity']
    gen,                \* per alert id: acknowledge/resolve calls so far
    createdSince,       \* per alert id: create_alert was called since the last acknowledge/resolve
    lastCreate,         \* the last create_alert call: its arguments and what it returned
    lastReturn,         \* the create_alert call that has just returned from asyncio.gather
    alertOps,           \* create/acknowledge/resolve calls so far
    lastOp,             \* the last acknowledge_alert / resolve_alert call and its result
    \* ---- StorageManager
    config,             \* StorageManager.config: one entry per configured adapter
    adapters,           \* keys of StorageManager.adapters: the adapters that were built
    connected,          \* adapters holding a client (connect succeeded, no disconnect since)
    call,               \* the store_data / batch_store_data coroutine in progress
    writes,             \* bag of adapter batch_store invocations of the current call
    storeRet,           \* what the last finished call returned, NoRet while one runs
    \* ---- TimeWindow
    window_size,        \* TimeWindow.window_size
    window,             \* TimeWindow.data: the deque of (timestamp, data) entries
    lastAdd,            \* timestamp of the last add, NoOffset before the first
    ordered,            \* no add so far had a timestamp earlier than the add before it
    adds,               \* add calls so far
    \* ---- InventoryConsumer.process_message on one message
    message,            \* message.value: the raw inventory event
    stage,              \* how far process_message has come
    processed_data,     \* what InventoryProcessor.process returned, NoData before
    returned,           \* what process_message returned, "pending" before
    alerted,            \* _handle_anomaly was called
    \* ---- InventoryEnricher
    event,              \* the processed event enrich is first called with
    item_mock,          \* what _generate_mock_item_details returns in this process
    location_mock,      \* what _generate_mock_location_details returns in this process
    item_cache,         \* InventoryEnricher.item_cache
    location_cache,     \* InventoryEnricher.location_cache
    redis,              \* the Redis client (if any) and the item keys the server holds
    enrichments,        \* what the enrich calls so far returned
    get_raised,         \* per enrich call: redis_client.get raised
    \* ---- InventoryAnomalyDetector
    data_window,        \* BaseAnomalyDetector.data_window
    baseline_stock,     \* _get_current_stock_level's baseline_stock of the item
    anomalies,          \* detect's local list `anomalies` in the last call
    best_anomaly,       \* what the last detect call returned
    detect_calls,       \* detect / batch_detect calls so far
    \* ---- AlertManager.evaluate_rules
    alert_rules,        \* AlertManager.alert_rules
    rule_data,          \* evaluate_rules' argument `data`
    rule_next,          \* index of the rule the loop of evaluate_rules is at
    awaiting,           \* the create_alert call the loop is suspended in, NoCall if none
    rule_outcomes,      \* per rule evaluated: "fired", "not_fired" or "error"
    triggered_alerts,    \* evaluate_rules' local list triggered_alerts
    \* ---- KafkaClient.send_message
    producer,           \* KafkaClient.producer is set (TRUE) or None (FALSE)
    topic_records,      \* what the output topic holds: <<value, key>> pairs
    last_send,          \* the last send_message call: its arguments and how it ended
    send_calls,          \* send_message calls so far
    \* ---- InventoryService and its tables
    stock_levels,       \* StockLevel rows of the item: location id -> quantity
    current_utilization,\* Location.current_utilization, per location id
    movements,          \* InventoryMovement rows, in the order of their creation
    last_call,          \* the last service call: its arguments, the tables before it, what it raised
    service_calls,       \* service calls so far
    transactions,        \* the service calls running at once, each in its own transaction
    \* ---- the consumer handles of the pipeline process
    handles,            \* the KafkaConsumer objects create_consumer has built, in order
    client_consumer,    \* KafkaClient.consumer: index into handles, 0 for None
    worker_consumer,    \* BaseConsumer.consumer of the inventory worker: index, 0 for None
    health_pc,          \* the health thread: "sleeping", "created" (test consumer open), "stopped"
    health_results,     \* what _check_kafka_health returned, call after call
    manager_running,    \* ProcessingPipelineManager.running
    \* ---- OrderService and one order's rows
    order_status,       \* Order.status
    status_history,     \* the order's OrderStatus records, oldest first
    picking_tasks,      \* the order's PickingTask rows, by creation
    picked_quantity,    \* OrderItem.picked_quantity of the order's item
    last_order_call     \* the last OrderService call and how it ended

pvars == <<log, committed, consumer, position, running, wpc, batch, pack, idx,
           processed_messages, mgrRunning, mpc, handler, signals, restarts, faults,
           handled, sentProcessed, sentAlerts, lastCommit, signalledRunning>>

avars == <<active_alerts, calls, sends, min_notification_severity, gen, createdSince,
           lastCreate, lastReturn, alertOps, lastOp>>

svars == <<config, adapters, connected, call, writes, storeRet>>

tvars == <<window_size, window, lastAdd, ordered, adds>>

msgvars == <<message, stage, processed_data, returned, alerted>>

enrvars == <<event, item_mock, location_mock, item_cache, location_cache, redis,
             enrichments, get_raised>>

\* the components that are neither the pipeline process nor the alert manager
detvars == <<data_window, baseline_stock, anomalies, best_anomaly, detect_calls>>

rulevars == <<alert_rules, rule_data, rule_next, awaiting, rule_outcomes,
              triggered_alerts>>

prodvars == <<producer, topic_records, last_send, send_calls>>

srvvars == <<stock_levels, current_utilization, movements, last_call,
             service_calls, transactions>>

hdlvars == <<handles, client_consumer, worker_consumer, health_pc, health_results,
           manager_running>>

ordvars == <<order_status, status_history, picking_tasks, picked_quantity,
            last_order_call>>

lvars == <<svars, tvars, msgvars, enrvars, detvars, rulevars, prodvars, srvvars, hdlvars, ordvars>>

\* everything but the storage manager, the time window, the message, the
\* enricher, the detector
nonStorage == <<pvars, avars, tvars, msgvars, enrvars, detvars, rulevars, prodvars, srvvars, hdlvars, ordvars>>
nonWindow == <<pvars, avars, svars, msgvars, enrvars, detvars, rulevars, prodvars, srvvars, hdlvars, ordvars>>
nonMessage == <<pvars, avars, svars, tvars, enrvars, detvars, rulevars, prodvars, srvvars, hdlvars, ordvars>>
nonEnricher == <<pvars, avars, svars, tvars, msgvars, detvars, rulevars, prodvars, srvvars, hdlvars, ordvars>>
nonDetector == <<pvars, avars, svars, tvars, msgvars, enrvars, rulevars, prodvars, srvvars, hdlvars, ordvars>>
nonProducer == <<pvars, avars, svars, tvars, msgvars, enrvars, detvars, rulevars, srvvars, hdlvars, ordvars>>
nonService == <<pvars, avars, svars, tvars, msgvars, enrvars, detvars, rulevars, prodvars, hdlvars, ordvars>>
nonHandles == <<pvars, avars, svars, tvars, msgvars, enrvars, detvars, rulevars, prodvars, srvvars, ordvars>>
nonOrders == <<pvars, avars, svars, tvars, msgvars, enrvars, detvars, rulevars, prodvars, srvvars, hdlvars>>
\* everything evaluate_rules leaves alone besides the alert manager's own state
nonAlert == <<pvars, svars, tvars, msgvars, enrvars, detvars, prodvars, srvvars, hdlvars, ordvars>>

vars == <<pvars, avars, lvars>>

----------------------------------------------------------------------------
(* Bounds of the model *)

MaxLog == 3        \* records written to the input topic
BatchSize == 2     \* batch_size, scaled down from 50 (main.py:104)
MaxPoll == 3       \* records one poll can return (may exceed batch_size)
MaxSignals == 1    \* termination signals delivered
MaxRestarts == 1   \* process restarts
MaxFaults == 1     \* failed bus calls (commit, produce)
MaxAlertOps == 2   \* alert manager calls
MaxBatchLen == 2   \* records of one batch_store_data call
MaxAdds == 3       \* TimeWindow.add calls
MaxTime == 3       \* timestamps are 0..MaxTime
MaxWindow == 2     \* window sizes are 1..MaxWindow
MaxDetectCalls == 2 \* detect / batch_detect calls
MaxRepeat == 10    \* events of one batch_detect call
MaxRules == 2      \* rules in alert_rules
MaxSendCalls == 3  \* send_message calls
MaxServiceCalls == 2 \* inventory service calls
MaxMove == 2       \* largest quantity of a service call
MaxTransactions == 2 \* service calls running at once
MaxPick == 2       \* the quantity of the order item
InitialStock == 1  \* StockLevel.quantity of the row before the concurrent calls
MaxHealthChecks == 4 \* health checks
MaxQty == 2        \* quantities are -MaxQty..MaxQty
MaxInstant == 25   \* instants are 0..MaxInstant hours after the epoch

NoOffset == 0 - 1

NoCommit == [committed |-> FALSE]

Min(a, b) == IF a < b THEN a ELSE b

Range(s) == {s[i] : i \in 1..Len(s)}

\* consecutive offsets from, from + 1, ..., from + n - 1
Offsets(from, n) == [i \in 1..n |-> from + i - 1]

----------------------------------------------------------------------------
(* Input records.  A record is abstracted to what the worker's code        *)
(* distinguishes: whether _validate_inventory_message accepts it, and      *)
(* whether the detector flags it.                                          *)

Kinds == {"invalid", "normal", "anomalous"}

KindOf(o) == log[o + 1]

\* InventoryConsumer._validate_inventory_message
validate_inventory_message(kind) == kind # "invalid"

\* InventoryAnomalyDetector.detect(...).is_anomaly
is_anomaly(kind) == kind = "anomalous"

\* an AnomalyResult that answers get like a dict
AnomalyResultWithGet == TRUE

\* detect returns an AnomalyResult object; the class defines to_dict only,
\* so anomaly_result.get(...) raises AttributeError.
AnomalyResultHasGet == FALSE

\* KafkaClient.create_consumer is called with auto_offset_reset="latest"
AutoOffsetReset == "latest"

\* where a consumer of a group with no committed offset starts
ResetOffset(l) == IF AutoOffsetReset = "latest" THEN Len(l) ELSE 0


\* InventoryProcessor.process stores timestamp_parsed, a datetime, in the
\* record; the producer's value_serializer is json.dumps, which raises
\* TypeError (not a KafkaError) on it.
EnrichedJsonSerializable == FALSE

\* KafkaClient.send_message on an enriched record: "raise" when an exception
\* other than KafkaError escapes, else confirmed ("ok") or KafkaError caught
\* and False returned ("fail").
SendEnrichedOutcomes ==
    IF EnrichedJsonSerializable THEN {"ok", "fail"} ELSE {"raise"}

\* InventoryConsumer.process_message up to its return value:
\*   "none"   : validation failed, or an exception was caught (returns None)
\*   "record" : the enriched record is returned
\* The alert send of _handle_anomaly happens only on the path that reaches it.
process_message_reaches_anomaly_check(kind) ==
    validate_inventory_message(kind) /\ AnomalyResultHasGet

process_message_result(kind, alertOutcome) ==
    IF ~validate_inventory_message(kind) THEN "none"
    ELSE IF ~AnomalyResultHasGet THEN "none"
    ELSE IF is_anomaly(kind) /\ alertOutcome = "raise" THEN "none"
    ELSE "record"

----------------------------------------------------------------------------
(* Initial state: the process has been launched, ProcessingPipelineManager  *)
(* is constructed (its signal handlers installed), start() not yet called. *)

ProcessInit ==
    /\ consumer = "none"
    /\ position = NoOffset
    /\ running = FALSE
    /\ wpc = "unstarted"
    /\ batch = <<>>
    /\ pack = <<>>
    /\ idx = 1
    /\ processed_messages = <<>>
    /\ mgrRunning = FALSE
    /\ mpc = "start"
    /\ handler = "manager"

PipelineInit ==
    /\ log = <<>>
    /\ committed = NoOffset
    /\ ProcessInit
    /\ signals = 0
    /\ restarts = 0
    /\ faults = 0
    /\ handled = <<>>
    /\ sentProcessed = <<>>
    /\ sentAlerts = <<>>
    /\ lastCommit = NoCommit
    /\ signalledRunning = FALSE

hvars == <<handled, sentProcessed, sentAlerts, lastCommit, signalledRunning>>
wvars == <<consumer, position, running, wpc, batch, pack, idx, processed_messages>>
mvars == <<mgrRunning, mpc, handler>>
evars == <<signals, restarts, faults>>

----------------------------------------------------------------------------
(* Environment *)

\* an external producer writes a record to the input topic
Produce ==
    /\ Len(log) < MaxLog
    /\ \E k \in Kinds : log' = Append(log, k)
    /\ UNCHANGED <<committed, wvars, mvars, evars, hvars, avars, lvars>>

----------------------------------------------------------------------------
(* BaseConsumer: the worker thread *)

\* BaseConsumer.stop
ConsumerStop ==
    /\ running' = FALSE
    /\ consumer' = IF consumer = "none" THEN "none" ELSE "closed"

\* BaseConsumer.start: create_consumer, running = True, enter _consume_loop
WorkerStart ==
    /\ wpc = "start"
    /\ consumer' = "open"
    /\ position' = NoOffset
    /\ running' = TRUE
    /\ wpc' = "loop"
    /\ UNCHANGED <<log, committed, batch, pack, idx, processed_messages,
                   mvars, evars, hvars, avars, lvars>>

\* the position a poll fetches from: on the first poll of a handle the group's
\* committed offset, or the reset policy's offset when the group has none
FetchPosition ==
    IF position # NoOffset THEN position
    ELSE IF committed # NoOffset THEN committed
    ELSE ResetOffset(log)

\* _consume_loop: `while self.running` is false: the loop and the thread end
LoopExit ==
    /\ wpc = "loop"
    /\ ~running
    /\ wpc' = "exited"
    /\ UNCHANGED <<log, committed, consumer, position, running, batch, pack, idx,
                   processed_messages, mvars, evars, hvars, avars, lvars>>

\* _consume_loop: self.consumer.poll(...) returns; every returned record moves
\* the handle's position.  A poll with nothing to return only joins the group.
Poll ==
    /\ wpc = "loop"
    /\ running
    /\ consumer = "open"
    /\ LET from == FetchPosition
           avail == Len(log) - from
       IN  IF avail <= 0
           THEN /\ position = NoOffset
                /\ position' = from
                /\ UNCHANGED <<pack, wpc>>
           ELSE \E n \in 1..Min(MaxPoll, avail) :
                /\ pack' = Offsets(from, n)
                /\ position' = from + n
                /\ wpc' = "iterate"
    /\ UNCHANGED <<log, committed, consumer, running, batch, idx,
                   processed_messages, mvars, evars, hvars, avars, lvars>>

\* _consume_loop: batch.append(message); flush when len(batch) >= batch_size
Iterate ==
    /\ wpc = "iterate"
    /\ pack # <<>>
    /\ batch' = Append(batch, Head(pack))
    /\ pack' = Tail(pack)
    /\ IF Len(batch') >= BatchSize
       THEN /\ wpc' = "process"
            /\ idx' = 1
            /\ processed_messages' = <<>>
       ELSE UNCHANGED <<wpc, idx, processed_messages>>
    /\ UNCHANGED <<log, committed, consumer, position, running,
                   mvars, evars, hvars, avars, lvars>>

\* _consume_loop: the poll result is exhausted: `if batch:` flush, else loop
EndOfPack ==
    /\ wpc = "iterate"
    /\ pack = <<>>
    /\ IF batch # <<>>
       THEN /\ wpc' = "process"
            /\ idx' = 1
            /\ processed_messages' = <<>>
       ELSE /\ wpc' = "loop"
            /\ UNCHANGED <<idx, processed_messages>>
    /\ UNCHANGED <<log, committed, consumer, position, running, batch, pack,
                   mvars, evars, hvars, avars, lvars>>

\* _process_batch visits the batch front to back: the i-th message visited
BatchMessageReversed(b, i) == b[Len(b) + 1 - i]

BatchMessage(b, i) == b[i]

\* _process_batch: one iteration of `for message in batch`, that is one call of
\* InventoryConsumer.process_message (with _handle_anomaly's alert send)
ProcessMessage ==
    /\ wpc = "process"
    /\ idx <= Len(batch)
    /\ LET m == BatchMessage(batch, idx)
           k == KindOf(m)
           alerting == process_message_reaches_anomaly_check(k) /\ is_anomaly(k)
       IN  \E out \in IF alerting THEN {"ok", "fail", "raise"} ELSE {"skip"} :
             /\ (out \in {"fail", "raise"}) => faults < MaxFaults
             /\ faults' = IF out \in {"fail", "raise"} THEN faults + 1 ELSE faults
             /\ handled' = IF m \in Range(handled) THEN handled ELSE Append(handled, m)
             /\ sentAlerts' = IF out = "ok" THEN Append(sentAlerts, m) ELSE sentAlerts
             /\ processed_messages' =
                    IF process_message_result(k, out) = "record"
                    THEN Append(processed_messages, m)
                    ELSE processed_messages
    /\ idx' = idx + 1
    /\ UNCHANGED <<log, committed, consumer, position, running, wpc, batch, pack,
                   mvars, signals, restarts, sentProcessed, lastCommit,
                   signalledRunning, avars, lvars>>

\* the records of msgs sent before the first send that raises, given each
\* send's outcome
RECURSIVE SentBeforeRaise(_, _)
SentBeforeRaise(msgs, outs) ==
    IF msgs = <<>> \/ Head(outs) = "raise" THEN <<>>
    ELSE (IF Head(outs) = "ok" THEN <<Head(msgs)>> ELSE <<>>)
         \o SentBeforeRaise(Tail(msgs), Tail(outs))

\* _process_batch after its loop: `if processed_messages:` process_batch sends
\* each record to the processed topic, ignoring send_message's result; an
\* exception escaping it ends the iteration of the poll result in
\* _consume_loop's handler, with the batch not cleared
ProcessBatch ==
    /\ wpc = "process"
    /\ idx > Len(batch)
    /\ IF processed_messages = <<>>
       THEN /\ wpc' = "commit"
            /\ UNCHANGED <<pack, sentProcessed>>
       ELSE \E outs \in [1..Len(processed_messages) -> SendEnrichedOutcomes] :
            /\ sentProcessed' = sentProcessed \o SentBeforeRaise(processed_messages, outs)
            /\ IF \E i \in DOMAIN outs : outs[i] = "raise"
               THEN /\ wpc' = "loop"
                    /\ pack' = <<>>
               ELSE /\ wpc' = "commit"
                    /\ UNCHANGED pack
    /\ idx' = 1
    /\ processed_messages' = <<>>
    /\ UNCHANGED <<log, committed, consumer, position, running, batch,
                   mvars, evars, handled, sentAlerts, lastCommit,
                   signalledRunning, avars, lvars>>

\* _commit_offsets then batch.clear(): consumer.commit() commits the handle's
\* position; a failing commit (always on a closed handle) is logged only
CommitOffsets ==
    /\ wpc = "commit"
    /\ \E ok \in IF consumer = "open" THEN {TRUE, FALSE} ELSE {FALSE} :
         /\ (~ok /\ consumer = "open") => faults < MaxFaults
         /\ faults' = IF ~ok /\ consumer = "open" THEN faults + 1 ELSE faults
         /\ committed' = IF ok THEN position ELSE committed
         /\ lastCommit' = IF ok
                          THEN [committed |-> TRUE, batch |-> batch]
                          ELSE lastCommit
    /\ batch' = <<>>
    /\ wpc' = "iterate"
    /\ UNCHANGED <<log, consumer, position, running, pack, idx, processed_messages,
                   mvars, signals, restarts, handled, sentProcessed, sentAlerts,
                   signalledRunning, avars, lvars>>


----------------------------------------------------------------------------
(* ProcessingPipelineManager: the main thread *)

\* ProcessingPipelineManager.start up to _start_consumers: running = True
ManagerStart ==
    /\ mpc = "start"
    /\ mgrRunning' = TRUE
    /\ mpc' = "start_consumers"
    /\ UNCHANGED <<log, committed, wvars, handler, evars, hvars, avars, lvars>>

\* _start_consumers: InventoryConsumer(...) is constructed, and
\* BaseConsumer.__init__ calls _setup_signal_handlers, which replaces the
\* manager's handler for SIGINT and SIGTERM; then the worker thread is started
StartConsumers ==
    /\ mpc = "start_consumers"
    /\ handler' = "consumer"
    /\ wpc' = "start"
    /\ mpc' = "main_loop"
    /\ UNCHANGED <<log, committed, consumer, position, running, batch, pack, idx,
                   processed_messages, mgrRunning, evars, hvars, avars, lvars>>

\* start's main loop `while self.running: time.sleep(1)` ends; the finally
\* clauses of start and of main call stop, which returns at once because
\* running is already false; the process exits and its daemon threads die
MainLoopExit ==
    /\ mpc = "main_loop"
    /\ ~mgrRunning
    /\ mpc' = "exited"
    /\ wpc' = IF wpc = "exited" THEN "exited" ELSE "killed"
    /\ UNCHANGED <<log, committed, consumer, position, running, batch, pack, idx,
                   processed_messages, mgrRunning, handler, evars, hvars, avars, lvars>>

\* ProcessingPipelineManager.stop, run by the manager's _signal_handler:
\* nothing when running is false; else running = False, every constructed
\* consumer is stopped and the client is closed
ManagerStop ==
    IF ~mgrRunning
    THEN UNCHANGED <<mgrRunning, running, consumer>>
    ELSE /\ mgrRunning' = FALSE
         /\ IF wpc = "unstarted"
            THEN UNCHANGED <<running, consumer>>
            ELSE ConsumerStop

\* SIGINT or SIGTERM is delivered: the installed handler runs
Signal ==
    /\ signals < MaxSignals
    /\ mpc # "exited"
    /\ signals' = signals + 1
    /\ signalledRunning' = (signalledRunning \/ mpc = "main_loop")
    /\ IF handler = "consumer"
       THEN /\ ConsumerStop
            /\ UNCHANGED mgrRunning
       ELSE ManagerStop
    /\ UNCHANGED <<log, committed, position, wpc, batch, pack, idx, processed_messages,
                   mpc, handler, restarts, faults, handled, sentProcessed, sentAlerts,
                   lastCommit, avars, lvars>>

\* the process dies (crash, kill, redeploy) and is launched again: everything
\* in its memory is lost; the topic and the group's committed offset remain
Restart ==
    /\ restarts < MaxRestarts
    /\ restarts' = restarts + 1
    /\ consumer' = "none"
    /\ position' = NoOffset
    /\ running' = FALSE
    /\ wpc' = "unstarted"
    /\ batch' = <<>>
    /\ pack' = <<>>
    /\ idx' = 1
    /\ processed_messages' = <<>>
    /\ mgrRunning' = FALSE
    /\ mpc' = "start"
    /\ handler' = "manager"
    /\ signalledRunning' = FALSE
    /\ UNCHANGED <<log, committed, signals, faults, handled, sentProcessed, sentAlerts,
                   lastCommit, avars, lvars>>


----------------------------------------------------------------------------
(* AlertManager *)

AlertIds == {"a1", "a2"}

\* the configured notification channels (self.notification_channels)
Channels == {"email", "slack"}

\* AlertSeverity
Severities == {"info", "warning", "error", "critical"}

\* _send_notifications: severity_levels
severity_levels(sev) ==
    CASE sev = "info" -> 0
      [] sev = "warning" -> 1
      [] sev = "error" -> 2
      [] sev = "critical" -> 3

below_threshold_flipped(sev) ==
    severity_levels(sev) > severity_levels(min_notification_severity)

\* _send_notifications: the threshold test that returns before any dispatch
below_threshold(sev) ==
    severity_levels(sev) < severity_levels(min_notification_severity)

\* any stored alert counts, whatever its status
is_stored(alert) == TRUE

\* create_alert: existing_alert.status == AlertStatus.ACTIVE
is_active(alert) == alert.status = "active"

no_duplicate_check(id) == FALSE

\* create_alert: "alert already exists and is active"
already_active(id) ==
    /\ id \in DOMAIN active_alerts
    /\ is_active(active_alerts[id])

NoCall == [op |-> 0]

\* AlertManager.__init__ with config['min_notification_severity'] = minimum
AlertInit(minimum) ==
    /\ active_alerts = <<>>
    /\ calls = {}
    /\ sends = EmptyBag
    /\ min_notification_severity = minimum
    /\ gen = [id \in AlertIds |-> 0]
    /\ createdSince = [id \in AlertIds |-> FALSE]
    /\ lastCreate = NoCall
    /\ lastReturn = NoCall
    /\ alertOps = 0
    /\ lastOp = NoCall

\* an alert created, and its notifications sent, before the calls counted here
EarlierAlert ==
    [status |-> "active", severity |-> "error", acknowledged_by |-> "none",
     acknowledged_at |-> 0, resolved_at |-> 0, serial |-> 0]

\* an alert manager that has been running: some alerts are active
AlertRunning(minimum, existing) ==
    /\ active_alerts = [id \in existing |-> EarlierAlert]
    /\ calls = {}
    /\ sends = EmptyBag
    /\ min_notification_severity = minimum
    /\ gen = [id \in AlertIds |-> 0]
    /\ createdSince = [id \in AlertIds |-> id \in existing]
    /\ lastCreate = NoCall
    /\ lastReturn = NoCall
    /\ alertOps = 0
    /\ lastOp = NoCall

\* the map m with key k set to v (self.active_alerts[alert_id] = alert)
MapSet(m, k, v) == [x \in DOMAIN m \cup {k} |-> IF x = k THEN v ELSE m[x]]

\* the map m without key k (del self.active_alerts[alert_id])
MapDel(m, k) == [x \in DOMAIN m \ {k} |-> m[x]]

\* create_alert up to its first suspension: the duplicate check, the insert,
\* and _send_notifications up to asyncio.gather (the threshold test and one
\* task per channel).  A call that dispatches nothing returns here.
create_alert(id, sev) ==
    /\ alertOps < MaxAlertOps
    /\ alertOps' = alertOps + 1
    /\ createdSince' = [createdSince EXCEPT ![id] = TRUE]
    /\ IF already_active(id)
       THEN /\ lastCreate' = [op |-> alertOps', id |-> id, severity |-> sev,
                              deduped |-> TRUE, returned |-> active_alerts[id].serial]
            /\ UNCHANGED <<active_alerts, calls>>
       ELSE /\ active_alerts' = MapSet(active_alerts, id,
                                    [status |-> "active", severity |-> sev,
                                     acknowledged_by |-> "none", acknowledged_at |-> 0,
                                     resolved_at |-> 0, serial |-> alertOps'])
            /\ lastCreate' = [op |-> alertOps', id |-> id, severity |-> sev,
                              deduped |-> FALSE, returned |-> alertOps']
            /\ calls' = IF below_threshold(sev) \/ Channels = {}
                        THEN calls
                        ELSE calls \cup {[op |-> alertOps', id |-> id, severity |-> sev,
                                          gen |-> gen[id], pending |-> Channels,
                                          results |-> <<>>]}
    /\ lastReturn' = NoCall
    /\ UNCHANGED <<sends, min_notification_severity, gen, lastOp>>

\* create_alert called directly
CreateAlert(id, sev) == create_alert(id, sev) /\ UNCHANGED <<pvars, lvars>>

\* What one channel's send can do: return True, return False (every concrete
\* channel catches Exception, logs it and returns False), or raise (the
\* abstract NotificationChannel.send, or the task being cancelled).
SendOutcomes == {"ok", "fail", "raise"}

\* a failing task ends every task of the call that has not run yet
RemainingAfterFailFast(pending, ch, outcome) ==
    IF outcome = "ok" THEN pending \ {ch} ELSE {}

\* The tasks of one call still to run after the task of channel ch ended:
\* each channel has its own task, whatever the others do.
RemainingAfter(pending, ch, outcome) == pending \ {ch}

\* one task of _send_notifications runs: channel.send(alert) is invoked and
\* ends with one of its outcomes, which gather collects
ChannelSend ==
    /\ \E c \in calls : \E ch \in c.pending : \E outcome \in SendOutcomes :
         /\ sends' = sends (+) SetToBag({[op |-> c.op, id |-> c.id, gen |-> c.gen,
                                          severity |-> c.severity, channel |-> ch]})
         /\ calls' = (calls \ {c}) \cup
                        {[c EXCEPT !.pending = RemainingAfter(@, ch, outcome),
                                   !.results = MapSet(@, ch, outcome)]}
    /\ UNCHANGED <<active_alerts, min_notification_severity, gen, createdSince,
                   lastCreate, lastReturn, alertOps, lastOp, pvars, lvars>>

\* asyncio.gather(return_exceptions=True) completes: a raised exception is one
\* more result that is not True; _send_notifications logs success_count and
\* create_alert returns the alert it built
GatherReturn ==
    /\ \E c \in calls :
         /\ c.pending = {}
         /\ calls' = calls \ {c}
         /\ lastReturn' = [op |-> c.op, id |-> c.id, gen |-> c.gen,
                           results |-> c.results, returned |-> c.op]
    /\ UNCHANGED <<active_alerts, sends, min_notification_severity, gen, createdSince,
                   lastCreate, alertOps, lastOp, pvars, lvars>>

\* no alert object; also the None of acknowledged_at / resolved_at is 0,
\* the clock being the number of the call
NoAlert == [status |-> "none"]

\* the status is set and the time stamped, the user is not recorded
acknowledge_without_user(alert, user, now) ==
    [alert EXCEPT !.status = "acknowledged", !.acknowledged_at = now]

\* Alert.acknowledge
acknowledge(alert, user, now) ==
    [alert EXCEPT !.status = "acknowledged", !.acknowledged_by = user,
                  !.acknowledged_at = now]

\* the time is stamped, the status is left as it was
resolve_without_status(alert, now) == [alert EXCEPT !.resolved_at = now]

\* Alert.resolve
resolve(alert, now) == [alert EXCEPT !.status = "resolved", !.resolved_at = now]

\* acknowledge_alert
AcknowledgeAlert(id, user) ==
    /\ alertOps < MaxAlertOps
    /\ alertOps' = alertOps + 1
    /\ gen' = [gen EXCEPT ![id] = @ + 1]
    /\ createdSince' = [createdSince EXCEPT ![id] = FALSE]
    /\ lastCreate' = NoCall
    /\ lastReturn' = NoCall
    /\ IF id \in DOMAIN active_alerts
       THEN /\ active_alerts' = [active_alerts EXCEPT
                                    ![id] = acknowledge(@, user, alertOps')]
            /\ lastOp' = [op |-> alertOps', kind |-> "acknowledge", id |-> id,
                          user |-> user, returned |-> TRUE,
                          alert |-> active_alerts'[id]]
       ELSE /\ active_alerts' = active_alerts
            /\ lastOp' = [op |-> alertOps', kind |-> "acknowledge", id |-> id,
                          user |-> user, returned |-> FALSE, alert |-> NoAlert]
    /\ UNCHANGED <<calls, sends, min_notification_severity, pvars, lvars>>

\* resolve_alert
ResolveAlert(id) ==
    /\ alertOps < MaxAlertOps
    /\ alertOps' = alertOps + 1
    /\ gen' = [gen EXCEPT ![id] = @ + 1]
    /\ createdSince' = [createdSince EXCEPT ![id] = FALSE]
    /\ lastCreate' = NoCall
    /\ lastReturn' = NoCall
    /\ IF id \in DOMAIN active_alerts
       THEN /\ active_alerts' = MapDel(active_alerts, id)
            /\ lastOp' = [op |-> alertOps', kind |-> "resolve", id |-> id,
                          user |-> "none", returned |-> TRUE,
                          alert |-> resolve(active_alerts[id], alertOps')]
       ELSE /\ active_alerts' = active_alerts
            /\ lastOp' = [op |-> alertOps', kind |-> "resolve", id |-> id,
                          user |-> "none", returned |-> FALSE, alert |-> NoAlert]
    /\ UNCHANGED <<calls, sends, min_notification_severity, pvars, lvars>>

\* ---- evaluate_rules.  A value of the data or of a condition is a number
\* or a text; Absent is a key the data does not have.
Number(n) == [type |-> "number", v |-> n]
Text(s) == [type |-> "text", v |-> s]
Absent == [type |-> "absent"]

\* the data evaluate_rules is called with: the fields the rules read
RuleData ==
    [level : {Absent, Number(1), Number(5)},
     msg : {Absent, Text("ok"), Text("error")}]

\* field in data
in_data(field, data) == field \in DOMAIN data /\ data[field] # Absent

\* str(data_value)
str(value) ==
    IF value.type = "text" THEN value.v
    ELSE CASE value.v = 1 -> "1" [] value.v = 3 -> "3" [] value.v = 5 -> "5"

\* value in str(data_value), on the texts of the model
substring(value, text) ==
    \/ value = text
    \/ value = "err" /\ text = "error"

\* re.search(value, str(data_value)), on the patterns of the model
re_search(pattern, text) ==
    CASE pattern = "^err" -> text = "error"
      [] pattern = "err" -> text = "error"
      [] OTHER -> pattern = text

\* _evaluate_rule, one pass of its loop: the condition is skipped ("no") when
\* its field is not in the data, makes the rule true ("match"), is passed
\* over ("no"), or raises: an ordering test between a text and a number is a
\* TypeError, and so is `in` or re.search with a value that is not a text.
\* == never raises, and an operator that is none of the five never matches.
condition_outcome(condition, data) ==
    IF ~in_data(condition.field, data)
    THEN "no"
    ELSE LET data_value == data[condition.field]
             value == condition.value
         IN CASE condition.operator \in {"gt", "lt"} ->
                   IF data_value.type # value.type THEN "raise"
                   ELSE IF condition.operator = "gt" /\ data_value.v > value.v
                        THEN "match"
                   ELSE IF condition.operator = "lt" /\ data_value.v < value.v
                        THEN "match"
                   ELSE "no"
              [] condition.operator = "eq" ->
                   IF data_value = value THEN "match" ELSE "no"
              [] condition.operator = "contains" ->
                   IF value.type # "text" THEN "raise"
                   ELSE IF substring(value.v, str(data_value)) THEN "match" ELSE "no"
              [] condition.operator = "regex" ->
                   IF value.type # "text" THEN "raise"
                   ELSE IF re_search(value.v, str(data_value)) THEN "match" ELSE "no"
              [] OTHER -> "no"

\* the rule is true only when every one of its conditions matches
evaluate_rule_all(conditions, data) ==
    IF /\ conditions # <<>>
       /\ \A k \in 1..Len(conditions) :
              condition_outcome(conditions[k], data) = "match"
    THEN "true" ELSE "false"

\* _evaluate_rule: the conditions in order; the first that matches returns
\* True, the first that raises ends the call with its exception, and the
\* end of the list returns False
evaluate_rule(conditions, data) ==
    LET decisive == {k \in 1..Len(conditions) :
                        condition_outcome(conditions[k], data) # "no"}
       first == CHOOSE k \in decisive : \A j \in decisive : k <= j
    IN IF decisive = {} THEN "false"
       ELSE IF condition_outcome(conditions[first], data) = "match"
            THEN "true" ELSE "raise"

\* the conditions of the rules
level_gt_3 == [field |-> "level", operator |-> "gt", value |-> Number(3)]
level_lt_3 == [field |-> "level", operator |-> "lt", value |-> Number(3)]
level_ne_5 == [field |-> "level", operator |-> "ne", value |-> Number(5)]
msg_eq_error == [field |-> "msg", operator |-> "eq", value |-> Text("error")]
msg_contains_err == [field |-> "msg", operator |-> "contains", value |-> Text("err")]
msg_regex_err == [field |-> "msg", operator |-> "regex", value |-> Text("^err")]
msg_gt_3 == [field |-> "msg", operator |-> "gt", value |-> Number(3)]
host_eq_error == [field |-> "host", operator |-> "eq", value |-> Text("error")]

\* The rules alert_rules is drawn from.  name stands for the alert id
\* "<name>_<correlation_id>" the rule's alerts get; severity is the rule's
\* template.  "urgent" is not a value of AlertSeverity.
Rules ==
    {[name |-> "a1", severity |-> "critical", conditions |-> <<level_gt_3>>],
     [name |-> "a2", severity |-> "warning",
      conditions |-> <<host_eq_error, msg_eq_error>>],
     [name |-> "a2", severity |-> "info", conditions |-> <<>>],
     [name |-> "a1", severity |-> "error",
      conditions |-> <<msg_gt_3, msg_contains_err>>],
     [name |-> "a1", severity |-> "warning",
      conditions |-> <<level_ne_5, msg_regex_err>>],
     [name |-> "a2", severity |-> "urgent", conditions |-> <<level_lt_3>>]}

\* no call of evaluate_rules: no rules, nothing to evaluate
IdleRules ==
    /\ alert_rules = <<>>
    /\ rule_data = [level |-> Absent, msg |-> Absent]
    /\ rule_next = 1
    /\ awaiting = NoCall
    /\ rule_outcomes = <<>>
    /\ triggered_alerts = <<>>

\* evaluate_rules(data) called on a manager holding the rules: the loop is
\* at the first rule
RulesInit(rules, data) ==
    /\ alert_rules = rules
    /\ rule_data = data
    /\ rule_next = 1
    /\ awaiting = NoCall
    /\ rule_outcomes = <<>>
    /\ triggered_alerts = <<>>

\* evaluate_rules, one turn of its loop up to the first suspension:
\* _evaluate_rule, then for a true rule _create_alert_from_rule, where
\* AlertSeverity(...) raises ValueError for a value that is no severity, and
\* create_alert up to its gather.  A call of create_alert that sends nothing
\* returns at once and the alert is appended; the except clause logs what
\* was raised and the loop goes on.
EvaluateRule ==
    /\ awaiting = NoCall
    /\ rule_next <= Len(alert_rules)
    /\ LET rule == alert_rules[rule_next]
           result == evaluate_rule(rule.conditions, rule_data)
       IN IF result = "true" /\ rule.severity \in Severities
          THEN /\ create_alert(rule.name, rule.severity)
               /\ IF \E c \in calls' : c.op = alertOps'
                  THEN /\ awaiting' = [op |-> alertOps', rule |-> rule_next]
                       /\ UNCHANGED <<rule_next, rule_outcomes, triggered_alerts>>
                  ELSE /\ rule_next' = rule_next + 1
                       /\ rule_outcomes' = Append(rule_outcomes, "fired")
                       /\ triggered_alerts' =
                              Append(triggered_alerts,
                                     [rule |-> rule_next, id |-> rule.name,
                                      deduped |-> lastCreate'.deduped,
                                      alert |-> active_alerts'[rule.name]])
                       /\ awaiting' = NoCall
          ELSE /\ rule_next' = rule_next + 1
               /\ rule_outcomes' =
                      Append(rule_outcomes,
                             IF result = "false" THEN "not_fired" ELSE "error")
               /\ UNCHANGED <<avars, awaiting, triggered_alerts>>
    /\ UNCHANGED <<alert_rules, rule_data, pvars, nonAlert>>

\* the gather of the suspended create_alert has returned: create_alert
\* returns the alert it built, evaluate_rules appends it and goes on
RuleResume ==
    /\ awaiting # NoCall
    /\ \A c \in calls : c.op # awaiting.op
    /\ LET rule == alert_rules[awaiting.rule]
       IN triggered_alerts' =
              Append(triggered_alerts,
                     [rule |-> awaiting.rule, id |-> rule.name, deduped |-> FALSE,
                      alert |-> [status |-> "active", severity |-> rule.severity,
                                 acknowledged_by |-> "none", acknowledged_at |-> 0,
                                 resolved_at |-> 0, serial |-> awaiting.op]])
    /\ rule_outcomes' = Append(rule_outcomes, "fired")
    /\ rule_next' = rule_next + 1
    /\ awaiting' = NoCall
    /\ UNCHANGED <<alert_rules, rule_data, avars, pvars, nonAlert>>

----------------------------------------------------------------------------
(* StorageManager (storage_manager.py).  store_data and batch_store_data   *)
(* are coroutines: they create one task per target adapter and await them. *)
(* A record is abstracted to the fields _infer_data_type looks at.         *)

Adapters == {"influxdb", "elasticsearch", "clickhouse"}

DataTypes == {"metrics", "logs", "alerts", "events", "aggregated", "performance"}

\* StorageManager.routing_rules
routing_rules(data_type) ==
    CASE data_type = "metrics"     -> <<"influxdb">>
      [] data_type = "logs"        -> <<"elasticsearch">>
      [] data_type = "alerts"      -> <<"elasticsearch", "clickhouse">>
      [] data_type = "events"      -> <<"clickhouse">>
      [] data_type = "aggregated"  -> <<"clickhouse">>
      [] data_type = "performance" -> <<"influxdb", "clickhouse">>

\* StorageManager._get_target_adapters: routing_rules.get(data_type, ['clickhouse'])
get_target_adapters(data_type) ==
    IF data_type \in DataTypes THEN routing_rules(data_type) ELSE <<"clickhouse">>

\* a field that is present with a value that is not a string (null, a number)
NonString == "<non-string>"

\* metric_name: the key metric_name or measurement is present;
\* severity, message: data.get('severity'), data.get('level') or
\* data.get('message') is truthy; event_type, data_type, source: the value,
\* "" when the key is absent
Records ==
    [metric_name : BOOLEAN,
     event_type  : {"", "inventory_alert", "ALERT", "stock_in", NonString},
     severity    : BOOLEAN,
     data_type   : {"", "aggregated_metrics", NonString},
     source      : {"", "performance_monitor", NonString},
     message     : BOOLEAN]

\* str.lower()
lower(s) == IF s = "ALERT" THEN "alert" ELSE s

\* word in s, for the words _infer_data_type looks for
Contains(word, s) ==
    CASE word = "alert"       -> s \in {"alert", "inventory_alert"}
      [] word = "aggregated"  -> s = "aggregated_metrics"
      [] word = "performance" -> s = "performance_monitor"

\* outcome of a call that ended with an exception instead of a value
Raised == "raised"

\* the performance test moved in front of the alerts test
infer_performance_first(data) ==
    IF data.metric_name THEN "metrics"
    ELSE IF data.source = NonString THEN Raised
    ELSE IF Contains("performance", lower(data.source)) THEN "performance"
    ELSE IF data.event_type = NonString THEN Raised
    ELSE IF Contains("alert", lower(data.event_type)) \/ data.severity THEN "alerts"
    ELSE IF data.data_type = NonString THEN Raised
    ELSE IF Contains("aggregated", lower(data.data_type)) THEN "aggregated"
    ELSE IF data.message THEN "logs"
    ELSE "events"

\* StorageManager._infer_data_type.  data.get(key, '').lower() raises
\* AttributeError when the key holds a value that is not a string.
infer_data_type(data) ==
    IF data.metric_name THEN "metrics"
    ELSE IF data.event_type = NonString THEN Raised
    ELSE IF Contains("alert", lower(data.event_type)) \/ data.severity THEN "alerts"
    ELSE IF data.data_type = NonString THEN Raised
    ELSE IF Contains("aggregated", lower(data.data_type)) THEN "aggregated"
    ELSE IF data.source = NonString THEN Raised
    ELSE IF Contains("performance", lower(data.source)) THEN "performance"
    ELSE IF data.message THEN "logs"
    ELSE "events"

\* the data_type argument: "" stands for None or the empty string (not data_type)
DataTypeArgs == DataTypes \cup {"", "custom"}

NoStore == [kind |-> "idle"]

NoRet == [kind |-> "none"]

\* type_groups of batch_store_data: the records grouped by inferred type, the
\* groups in the order of their first record (dict insertion order)
RECURSIVE type_groups(_, _)
type_groups(data_list, groups) ==
    IF data_list = <<>> THEN groups
    ELSE LET data == Head(data_list)
             inferred_type == infer_data_type(data)
             at == {i \in 1..Len(groups) : groups[i].type = inferred_type}
         IN  IF at = {}
             THEN type_groups(Tail(data_list),
                              Append(groups, [type |-> inferred_type, records |-> <<data>>]))
             ELSE type_groups(Tail(data_list),
                              [groups EXCEPT ![CHOOSE i \in at : TRUE].records =
                                                 Append(@, data)])

\* no entry is made for a target adapter that was not built
UnavailableOmitted(target_adapters) == [a \in {} |-> FALSE]

\* results of the target adapters that are not in self.adapters
UnavailableResults(target_adapters) ==
    [a \in Range(target_adapters) \ adapters |-> FALSE]

\* the call's state when the tasks of group gi have been created
Dispatch(kind, arg, input, groups, gi, all_results) ==
    LET target_adapters == get_target_adapters(groups[gi].type)
    IN  [kind |-> kind, data_type |-> arg, input |-> input, groups |-> groups, gi |-> gi,
         pending |-> Range(target_adapters) \cap adapters,
         results |-> UnavailableResults(target_adapters),
         all_results |-> all_results]

\* config.get('token') of an adapter's configuration: a token or nothing
NoToken == "none"

\* InfluxDBAdapter.__init__ raises ValueError("InfluxDB token is required")
\* when the token is missing or empty; the other two constructors only read
\* their configuration
constructor_raises(name, adapter_config) ==
    name = "influxdb" /\ adapter_config.token = NoToken

\* _initialize_adapters: one adapter per key of the configuration; a
\* constructor that raises is logged and its adapter left out
initialize_adapters(cfg) ==
    {name \in DOMAIN cfg : ~constructor_raises(name, cfg[name])}

\* the configurations: any subset of the three keys, the time-series entry
\* with or without its token
StorageConfigs ==
    UNION {{[name \in keys |-> [token |-> IF name = "influxdb" THEN token ELSE NoToken]] :
               token \in {"secret", NoToken}} : keys \in SUBSET Adapters}

\* the configuration with all three adapters and the token
FullConfig ==
    [name \in Adapters |-> [token |-> IF name = "influxdb" THEN "secret" ELSE NoToken]]

\* StorageManager.__init__
StorageInit(cfg) ==
    /\ config = cfg
    /\ adapters = initialize_adapters(cfg)
    /\ connected = {}
    /\ call = NoStore
    /\ writes = EmptyBag
    /\ storeRet = NoRet

\* connect_all: each adapter's connect succeeds or raises.  (Connections change
\* between storage calls: start-up and shutdown, not in the middle of a write.)
ConnectAll ==
    /\ call = NoStore /\ storeRet = NoRet
    /\ \E succeeded \in SUBSET adapters : connected' = connected \cup succeeded
    /\ UNCHANGED <<config, adapters, call, writes, storeRet, nonStorage>>

\* disconnect_all
DisconnectAll ==
    /\ call = NoStore /\ storeRet = NoRet
    /\ connected # {}
    /\ connected' = {}
    /\ UNCHANGED <<config, adapters, call, writes, storeRet, nonStorage>>

\* store_data up to its first await: the type, the targets, one task per
\* available target.  Each adapter's store(data) is batch_store([data]).
StoreData(data, data_type) ==
    /\ call = NoStore
    /\ storeRet = NoRet
    /\ writes' = EmptyBag
    /\ LET type == IF data_type = "" THEN infer_data_type(data) ELSE data_type
       IN  IF type = Raised
           THEN /\ storeRet' = [kind |-> "store", data_type |-> data_type, input |-> data,
                                type |-> type, raised |-> TRUE, result |-> <<>>]
                /\ call' = NoStore
           ELSE /\ storeRet' = NoRet
                /\ call' = Dispatch("store", data_type, data,
                                    <<[type |-> type, records |-> <<data>>]>>, 1, <<>>)
    /\ UNCHANGED <<config, adapters, connected, nonStorage>>

\* batch_store_data up to its first await: the grouping (with a data_type all
\* records form one group) and the tasks of the first group
BatchStoreData(data_list, data_type) ==
    /\ call = NoStore
    /\ storeRet = NoRet
    /\ writes' = EmptyBag
    /\ LET ret(raised, result) == [kind |-> "batch", data_type |-> data_type,
                                   input |-> data_list, raised |-> raised,
                                   result |-> result]
       IN  IF data_list = <<>>
           THEN storeRet' = ret(FALSE, <<>>) /\ call' = NoStore
           ELSE IF data_type # ""
           THEN /\ storeRet' = NoRet
                /\ call' = Dispatch("batch", data_type, data_list,
                                    <<[type |-> data_type, records |-> data_list]>>, 1, <<>>)
           ELSE IF \E i \in 1..Len(data_list) : infer_data_type(data_list[i]) = Raised
           THEN storeRet' = ret(TRUE, <<>>) /\ call' = NoStore
           ELSE /\ storeRet' = NoRet
                /\ call' = Dispatch("batch", data_type, data_list,
                                    type_groups(data_list, <<>>), 1, <<>>)
    /\ UNCHANGED <<config, adapters, connected, nonStorage>>

\* What an adapter's batch_store can do: without a client it raises
\* ConnectionError; with one it returns True, raises WriteError, or (as
\* BaseStorageAdapter's contract allows) returns False.
AdapterOutcomes(a) == IF a \in connected THEN {"ok", "false", "raise"} ELSE {"raise"}

\* one task runs: _store_to_adapter / _batch_store_to_adapter calls the
\* adapter and turns an exception into False
AdapterBatchStore ==
    /\ call # NoStore
    /\ \E a \in call.pending : \E outcome \in AdapterOutcomes(a) :
         /\ writes' = writes (+) SetToBag({[type |-> call.groups[call.gi].type,
                                            adapter |-> a,
                                            records |-> call.groups[call.gi].records,
                                            outcome |-> outcome,
                                            connected |-> a \in connected]})
         /\ call' = [call EXCEPT !.pending = @ \ {a},
                                 !.results = MapSet(@, a, outcome = "ok")]
    /\ UNCHANGED <<config, adapters, connected, storeRet, nonStorage>>

\* one successful batch is enough for an adapter's entry
any_success(success_list) == \E i \in 1..Len(success_list) : success_list[i]

\* all(success_list)
all(success_list) == \A i \in 1..Len(success_list) : success_list[i]

\* every task of the group has been awaited: store_data and an explicitly
\* typed batch_store_data return results; otherwise the group's results are
\* merged and the next group is dispatched, or the merged results returned
TasksJoined ==
    /\ call # NoStore
    /\ call.pending = {}
    /\ IF call.kind = "store"
       THEN /\ storeRet' = [kind |-> "store", data_type |-> call.data_type,
                            input |-> call.input, type |-> call.groups[1].type,
                            raised |-> FALSE, result |-> call.results]
            /\ call' = NoStore
       ELSE LET merged == [a \in DOMAIN call.all_results \cup DOMAIN call.results |->
                              IF a \notin DOMAIN call.results THEN call.all_results[a]
                              ELSE IF a \notin DOMAIN call.all_results
                                   THEN <<call.results[a]>>
                                   ELSE Append(call.all_results[a], call.results[a])]
            IN  IF call.gi < Len(call.groups)
                THEN /\ call' = Dispatch("batch", call.data_type, call.input,
                                         call.groups, call.gi + 1, merged)
                     /\ UNCHANGED storeRet
                ELSE /\ storeRet' = [kind |-> "batch", data_type |-> call.data_type,
                                     input |-> call.input, raised |-> FALSE,
                                     result |-> IF call.data_type # ""
                                                THEN call.results
                                                ELSE [a \in DOMAIN merged |->
                                                         all(merged[a])]]
                     /\ call' = NoStore
    /\ UNCHANGED <<config, adapters, connected, writes, nonStorage>>

\* the caller has received the returned map (or the exception)
Returned ==
    /\ storeRet # NoRet
    /\ storeRet' = NoRet
    /\ writes' = EmptyBag
    /\ UNCHANGED <<config, adapters, connected, call, nonStorage>>

\* records batch_store_data is called with: one record for each rule of
\* _infer_data_type, and two for its default
BatchPool ==
    {r \in Records :
        /\ r.event_type \in {"", "inventory_alert", "stock_in"}
        /\ r.data_type # NonString
        /\ r.source # NonString
        /\ Cardinality({f \in {"metric_name", "event_type", "severity", "data_type",
                               "source", "message"} :
                          IF f \in {"metric_name", "severity", "message"}
                          THEN r[f] ELSE r[f] # ""}) <= 1}

\* the lists of at most n elements of S
SeqsUpTo(S, n) == UNION {[1..k -> S] : k \in 0..n}

\* store_data is called with every record and no data_type, and with the
\* records of BatchPool and every data_type
StoreInputs ==
    [data : Records, data_type : {""}]
        \cup [data : BatchPool, data_type : DataTypeArgs \ {""}]

BatchInputs == SeqsUpTo(BatchPool, MaxBatchLen)

----------------------------------------------------------------------------
(* TimeWindow (base_aggregator.py).  Timestamps and window sizes are       *)
(* integers; an entry is <<timestamp, data>>.  BaseAggregator.process_data *)
(* passes the event's own timestamp_parsed, so add calls arrive in the     *)
(* order of the events, not of their timestamps.                           *)

Timestamps == 0..MaxTime

\* TimeWindow._cleanup_old_data: pops from the left while the front entry is
\* older than the cutoff
RECURSIVE cleanup_old_data(_, _, _)
cleanup_old_data(entries, current_time, size) ==
    IF entries # <<>> /\ entries[1][1] < current_time - size
    THEN cleanup_old_data(Tail(entries), current_time, size)
    ELSE entries

\* TimeWindow.__init__
WindowInit(size) ==
    /\ window_size = size
    /\ window = <<>>
    /\ lastAdd = NoOffset
    /\ ordered = TRUE
    /\ adds = 0

\* TimeWindow.add
Add(timestamp, x) ==
    /\ adds < MaxAdds
    /\ adds' = adds + 1
    /\ window' = cleanup_old_data(Append(window, <<timestamp, x>>), timestamp, window_size)
    /\ lastAdd' = timestamp
    /\ ordered' = (ordered /\ lastAdd <= timestamp)
    /\ UNCHANGED <<window_size, nonWindow>>

----------------------------------------------------------------------------
(* InventoryConsumer.process_message on one message: validation,           *)
(* InventoryProcessor.process, and the enrich / detect tail.  A message is *)
(* abstracted to the fields validation and process look at.  Time is       *)
(* counted in hours since the epoch.                                       *)

ValidActions == {"stock_in", "stock_out", "adjustment", "transfer"}

\* "absent": the key is missing; "return" stands for any other action
Actions == ValidActions \cup {"absent", "return"}

\* quantity: missing, null, a string that is no number, a number, or a
\* string holding a number
Quantities ==
    {[kind |-> "absent"], [kind |-> "null"], [kind |-> "text"]}
        \cup [kind : {"number", "numeric_string"}, value : (0 - MaxQty)..MaxQty]

Instants == 0..MaxInstant

\* offsets an ISO-8601 string may carry besides Z
UtcOffsets == {0 - 1, 2}

\* timestamp: missing, a string that is no timestamp, epoch seconds, or an
\* ISO-8601 string showing the wall clock `wall` at offset `utcoffset`
\* (written Z or +hh:mm) from UTC
RawTimestamps ==
    {[kind |-> "absent"], [kind |-> "text"]}
        \cup {[kind |-> "epoch", seconds |-> i] : i \in Instants}
        \cup {[kind |-> "iso", wall |-> i, suffix |-> "Z", utcoffset |-> 0] : i \in Instants}
        \cup {[kind |-> "iso", wall |-> i + k, suffix |-> "+hh:mm", utcoffset |-> k] :
                 i \in Instants, k \in UtcOffsets}

Messages ==
    [item_id : {"absent", "I1"}, action : Actions, quantity : Quantities,
     timestamp : RawTimestamps]

\* float(x) succeeds
float_ok(q) == q.kind \in {"number", "numeric_string"}

\* float(x), defined when float_ok(x)
float(q) == q.value

abs(x) == IF x < 0 THEN 0 - x ELSE x

\* validation without the sign test for stock_in
validate_without_sign_test(data) ==
    /\ data.item_id # "absent" /\ data.action # "absent"
    /\ data.quantity.kind # "absent" /\ data.timestamp.kind # "absent"
    /\ data.action \in ValidActions
    /\ float_ok(data.quantity)

\* InventoryConsumer._validate_inventory_message
validate_message(data) ==
    /\ data.item_id # "absent" /\ data.action # "absent"
    /\ data.quantity.kind # "absent" /\ data.timestamp.kind # "absent"
    /\ data.action \in ValidActions
    /\ float_ok(data.quantity)
    /\ ~(float(data.quantity) < 0 /\ data.action = "stock_in")

\* the sign of the quantity is kept for stock_out
quantity_normalized_signed(action, quantity) ==
    IF action = "stock_out" THEN 0 - quantity ELSE abs(quantity)

\* InventoryProcessor.process, lines 37-43
quantity_normalized(action, quantity) ==
    IF action = "stock_out" THEN 0 - abs(quantity) ELSE abs(quantity)

\* InventoryProcessor._parse_timestamp: an aware datetime, as its wall clock
\* and its offset from UTC.  fromisoformat keeps the offset the string
\* carries; fromtimestamp(.., tz=utc) and now(utc) are in UTC.
parse_timestamp(timestamp, now) ==
    CASE timestamp.kind = "epoch" -> [wall |-> timestamp.seconds, utcoffset |-> 0]
      [] timestamp.kind = "iso"   -> [wall |-> timestamp.wall,
                                      utcoffset |-> timestamp.utcoffset]
      [] OTHER                    -> [wall |-> now, utcoffset |-> 0]

\* datetime.hour and datetime.weekday() (Monday is 0; the epoch was a Thursday)
hour_of(dt) == dt.wall % 24

weekday_of(dt) == ((dt.wall \div 24) + 3) % 7

\* InventoryProcessor._get_shift
get_shift(hour) ==
    IF 6 <= hour /\ hour < 14 THEN "morning"
    ELSE IF 14 <= hour /\ hour < 22 THEN "afternoon"
    ELSE "night"

\* InventoryProcessor._get_business_context
get_business_context(dt) ==
    [hour |-> hour_of(dt),
     day_of_week |-> weekday_of(dt),
     is_business_hours |-> (8 <= hour_of(dt) /\ hour_of(dt) <= 18 /\ weekday_of(dt) < 5),
     is_weekend |-> weekday_of(dt) >= 5,
     shift |-> get_shift(hour_of(dt))]

NoData == [kind |-> "none"]

\* the message of the specifications that are about other components
IdleMessage ==
    [item_id |-> "absent", action |-> "absent", quantity |-> [kind |-> "absent"],
     timestamp |-> [kind |-> "absent"]]

MessageInit(data) ==
    /\ message = data
    /\ stage = "received"
    /\ processed_data = NoData
    /\ returned = "pending"
    /\ alerted = FALSE

\* process_message, lines 37-40: a rejected message makes it return None
Validate ==
    /\ stage = "received"
    /\ IF validate_message(message)
       THEN stage' = "validated" /\ UNCHANGED returned
       ELSE stage' = "rejected" /\ returned' = "None"
    /\ UNCHANGED <<message, processed_data, alerted, nonMessage>>

\* InventoryProcessor.process, lines 21-25: the keys of
\* processed_data["processing"]
processing_keys == {"processed_at", "processor", "kafka_metadata"}

\* processed_data.get("quantity", 0)
quantity_or_default(data) ==
    IF data.quantity.kind = "absent" THEN [kind |-> "number", value |-> 0]
    ELSE data.quantity

\* InventoryProcessor.process raises: float(...) of a quantity or a
\* unit_price that is null (TypeError) or no number (ValueError)
process_raises(data) ==
    \/ ~float_ok(quantity_or_default(data))
    \/ /\ "unit_price" \in DOMAIN data
       /\ data.unit_price.kind # "absent"
       /\ ~float_ok(data.unit_price)

\* InventoryProcessor.process: the record returned, when it returns
process(data, now) ==
    LET quantity == float(quantity_or_default(data))
        timestamp_parsed == parse_timestamp(data.timestamp, now)
    IN  [kind |-> "processed",
         processing |-> processing_keys,
         quantity_abs |-> abs(quantity),
         quantity_direction |-> IF data.action = "stock_out"
                                THEN "negative" ELSE "positive",
         quantity_normalized |-> quantity_normalized(data.action, quantity),
         timestamp_parsed |-> timestamp_parsed,
         business_context |-> get_business_context(timestamp_parsed)]

\* process_message, line 43: InventoryProcessor.process
Process ==
    /\ stage = "validated"
    /\ stage' = "processed"
    /\ \E now \in Instants : processed_data' = process(message, now)
    /\ UNCHANGED <<message, returned, alerted, nonMessage>>

\* the maps process is called with on its own: a message with or without
\* a unit_price, which may be a number or a text that is none
ProcessorInputs ==
    {[item_id |-> m.item_id, action |-> m.action, quantity |-> m.quantity,
      timestamp |-> m.timestamp, unit_price |-> p] :
        m \in [item_id : {"I1"}, action : {"stock_out", "adjustment"},
               quantity : Quantities,
               timestamp : {t \in RawTimestamps : t.kind = "iso" => t.wall = 10}],
        p \in {[kind |-> "absent"], [kind |-> "text"], [kind |-> "number", value |-> 2]}}

\* InventoryProcessor.process called on any map: it returns the processed
\* record, or ends with the exception float raised
ProcessAny ==
    /\ stage = "received"
    /\ IF process_raises(message)
       THEN /\ stage' = "raised"
            /\ UNCHANGED processed_data
       ELSE /\ stage' = "processed"
            /\ \E now \in Instants : processed_data' = process(message, now)
    /\ UNCHANGED <<message, returned, alerted, nonMessage>>

\* no entry is added
add_to_window_skipped(samples, data) == samples

\* BaseAnomalyDetector._add_to_window, the first statement of detect
add_to_window(samples, data) == Append(samples, data)

\* process_message, lines 46-57: enrich, detect, then anomaly_result.get,
\* which raises AttributeError on the AnomalyResult object: _handle_anomaly
\* is not reached and the except clause returns None
DetectAndReturn ==
    /\ stage = "processed"
    /\ stage' = "returned"
    /\ data_window' = add_to_window(data_window, processed_data)
    /\ detect_calls' = detect_calls + 1
    /\ IF AnomalyResultHasGet
       THEN /\ returned' = "enriched_data"
            /\ alerted' \in BOOLEAN
       ELSE /\ returned' = "None"
            /\ UNCHANGED alerted
    /\ UNCHANGED <<message, processed_data, baseline_stock, anomalies, best_anomaly,
                   pvars, avars, svars, tvars, enrvars, rulevars, prodvars,
                   srvvars, hdlvars, ordvars>>

\* _process_batch, lines 99-106, for a batch of this one message: a result
\* that is None is left out and process_batch is not called; else
\* process_batch sends the record, and when no send raised batch_detect
\* runs detect on it again
WorkerProcessBatch ==
    /\ stage \in {"rejected", "returned"}
    /\ stage' = "flushed"
    /\ IF returned = "None"
       THEN UNCHANGED <<data_window, detect_calls>>
       ELSE \E out \in SendEnrichedOutcomes :
              IF out = "raise"
              THEN UNCHANGED <<data_window, detect_calls>>
              ELSE /\ data_window' = add_to_window(data_window, processed_data)
                   /\ detect_calls' = detect_calls + 1
    /\ UNCHANGED <<message, processed_data, returned, alerted, baseline_stock,
                   anomalies, best_anomaly, pvars, avars, svars, tvars, enrvars,
                   rulevars, prodvars, srvvars, hdlvars, ordvars>>

----------------------------------------------------------------------------
(* InventoryEnricher (inventory_enricher.py).  A processed event is        *)
(* abstracted to the fields enrich reads; Unset is a key that is absent.   *)

Unset == [kind |-> "unset"]

\* what _generate_mock_item_details derives from hash(item_id): the fields
\* the enricher reads later
ItemDetails ==
    {[perishable |-> FALSE, high_value |-> FALSE, category |-> "Clothing"],
     [perishable |-> TRUE,  high_value |-> FALSE, category |-> "Food"],
     [perishable |-> FALSE, high_value |-> TRUE,  category |-> "Electronics"],
     [perishable |-> TRUE,  high_value |-> TRUE,  category |-> "Clothing"]}

\* what _generate_mock_location_details derives from hash(location_id)
LocationDetails == {[zone |-> "A"], [zone |-> "B"]}

\* json.dumps / json.loads of a details dict (strings, numbers, booleans)
json_dumps(details) == [json |-> details]

json_loads(text) == text.json

\* InventoryProcessor.action_mappings
action_mappings(action) ==
    CASE action = "stock_in"  -> "inbound"
      [] action = "stock_out" -> "outbound"
      [] OTHER                -> action

\* the processed events enrich is called with: quantity_abs below 10 or
\* from 1000, total_value absent (0) or between 100 and 1000, January or July
ProcessedEvents ==
    {[item_id |-> f.item_id, location_id |-> f.location_id, action |-> f.action,
      normalized_action |-> action_mappings(f.action),
      quantity_abs |-> f.quantity_abs, total_value |-> f.total_value,
      is_business_hours |-> f.is_business_hours, month |-> f.month,
      item_details |-> Unset, location_details |-> Unset, classification |-> Unset,
      risk_assessment |-> Unset, seasonal_context |-> Unset] :
        f \in [item_id : {"", "I1"}, location_id : {"", "L1"},
               action : {"stock_out", "stock_in"}, quantity_abs : {5, 5000},
               total_value : {0, 500}, is_business_hours : BOOLEAN, month : {1, 7}]}

\* redis_client.get returns a value: there is a client, the call does not
\* raise, the key is there
redis_hit(item_id, get_ok) ==
    redis.client /\ get_ok /\ item_id \in DOMAIN redis.items

\* InventoryEnricher._get_item_details: the value returned
get_item_details(item_id, get_ok) ==
    IF item_id = "" THEN Unset
    ELSE IF redis_hit(item_id, get_ok) THEN json_loads(redis.items[item_id])
    ELSE IF item_id \in DOMAIN item_cache THEN item_cache[item_id]
    ELSE item_mock

\* InventoryEnricher._get_item_details: a miss in both caches generates the
\* mock details and stores them in both
item_missed(item_id, get_ok) ==
    item_id # "" /\ ~redis_hit(item_id, get_ok) /\ item_id \notin DOMAIN item_cache

\* InventoryEnricher._get_location_details: the value returned
get_location_details(location_id) ==
    IF location_id = "" THEN Unset
    ELSE IF location_id \in DOMAIN location_cache THEN location_cache[location_id]
    ELSE location_mock

\* InventoryEnricher._get_volume_category
get_volume_category(data) ==
    IF data.quantity_abs < 10 THEN "low"
    ELSE IF data.quantity_abs < 100 THEN "medium"
    ELSE IF data.quantity_abs < 1000 THEN "high"
    ELSE "bulk"

\* InventoryEnricher._get_value_category
get_value_category(data) ==
    IF data.total_value = 0 THEN "unknown"
    ELSE IF data.total_value < 100 THEN "low"
    ELSE IF data.total_value < 1000 THEN "medium"
    ELSE IF data.total_value < 10000 THEN "high"
    ELSE "critical"

\* data.get("item_details", {}).get(flag)
item_flag(data, flag) == data.item_details # Unset /\ data.item_details[flag]

\* InventoryEnricher._get_urgency_level
get_urgency_level(data) ==
    IF item_flag(data, "perishable") THEN "high"
    ELSE IF item_flag(data, "high_value") THEN "high"
    ELSE IF data.action = "stock_out" THEN "medium"
    ELSE "low"

\* InventoryEnricher._classify_inventory_event
classify_inventory_event(data) ==
    [event_type |-> data.normalized_action,
     volume_category |-> get_volume_category(data),
     value_category |-> get_value_category(data),
     urgency |-> get_urgency_level(data)]

\* InventoryEnricher._assess_risk
assess_risk(data) ==
    LET high_value == item_flag(data, "high_value")
        bulk == data.classification # Unset /\ data.classification.volume_category = "bulk"
        after_hours == ~data.is_business_hours
        perishable == item_flag(data, "perishable")
        risk_score == (IF high_value THEN 3 ELSE 0) + (IF bulk THEN 2 ELSE 0)
                      + (IF after_hours THEN 1 ELSE 0) + (IF perishable THEN 1 ELSE 0)
    IN  [score |-> risk_score,
         level |-> IF risk_score >= 5 THEN "high"
                   ELSE IF risk_score >= 3 THEN "medium" ELSE "low",
         factors |-> (IF high_value THEN <<"high_value_item">> ELSE <<>>)
                     \o (IF bulk THEN <<"bulk_transaction">> ELSE <<>>)
                     \o (IF after_hours THEN <<"after_hours">> ELSE <<>>)
                     \o (IF perishable THEN <<"perishable_item">> ELSE <<>>)]

\* InventoryEnricher._get_seasonal_context
get_seasonal_context(data) ==
    LET season == IF data.month \in {12, 1, 2} THEN "winter"
                  ELSE IF data.month \in {3, 4, 5} THEN "spring"
                  ELSE IF data.month \in {6, 7, 8} THEN "summer"
                  ELSE "fall"
        category == IF data.item_details = Unset THEN "" ELSE data.item_details.category
    IN  [season |-> season,
         month |-> data.month,
         seasonal_demand |-> IF season = "winter" /\ category = "Clothing" THEN "high"
                             ELSE IF season = "summer" /\ category = "Electronics"
                                  THEN "high" ELSE "normal"]

\* InventoryEnricher.enrich: the returned event
enrich(data, get_ok) ==
    LET item_details == get_item_details(data.item_id, get_ok)
        location_details == get_location_details(data.location_id)
        with_details == [data EXCEPT
                            !.item_details = IF item_details # Unset
                                             THEN item_details ELSE @,
                            !.location_details = IF location_details # Unset
                                                 THEN location_details ELSE @]
        classified == [with_details EXCEPT
                          !.classification = classify_inventory_event(with_details)]
        assessed == [classified EXCEPT
                        !.risk_assessment = assess_risk(classified)]
    IN  [assessed EXCEPT !.seasonal_context = get_seasonal_context(assessed)]

\* InventoryEnricher.__init__, then whatever earlier calls and other writers
\* left: the in-process caches hold only what this process generated
EnricherInit(data, mock, cached, client, stored) ==
    /\ event = data
    /\ item_mock = mock.item
    /\ location_mock = mock.location
    /\ item_cache = IF cached.item THEN [k \in {"I1"} |-> mock.item] ELSE <<>>
    /\ location_cache = IF cached.location THEN [k \in {"L1"} |-> mock.location] ELSE <<>>
    /\ redis = [client |-> client, items |-> stored]
    /\ enrichments = <<>>
    /\ get_raised = <<>>

\* what the Redis server can hold under the key of item I1
RedisItems == {<<>>} \cup {[k \in {"I1"} |-> json_dumps(d)] : d \in ItemDetails}

IdleEvent == CHOOSE data \in ProcessedEvents : data.item_id = "" /\ data.location_id = ""

IdleEnricher ==
    EnricherInit(IdleEvent,
                 [item |-> CHOOSE d \in ItemDetails : TRUE,
                  location |-> CHOOSE d \in LocationDetails : TRUE],
                 [item |-> FALSE, location |-> FALSE], FALSE, <<>>)

\* enrich is applied to the event, then to what it returned; each Redis call
\* of the lookup returns or raises
Enrich(get_ok, setex_ok) ==
    /\ Len(enrichments) < 2
    /\ LET data == IF enrichments = <<>> THEN event ELSE enrichments[Len(enrichments)]
           missed == item_missed(data.item_id, get_ok)
       IN  /\ enrichments' = Append(enrichments, enrich(data, get_ok))
           /\ get_raised' = Append(get_raised,
                                   data.item_id # "" /\ redis.client /\ ~get_ok)
           /\ item_cache' = IF missed
                            THEN MapSet(item_cache, data.item_id, item_mock)
                            ELSE item_cache
           /\ redis' = IF missed /\ redis.client /\ setex_ok
                       THEN [redis EXCEPT !.items =
                                MapSet(@, data.item_id, json_dumps(item_mock))]
                       ELSE redis
           /\ location_cache' = IF data.location_id # ""
                                   /\ data.location_id \notin DOMAIN location_cache
                                THEN MapSet(location_cache, data.location_id, location_mock)
                                ELSE location_cache
    /\ UNCHANGED <<event, item_mock, location_mock, nonEnricher>>

----------------------------------------------------------------------------
(* InventoryAnomalyDetector (inventory_anomaly_detector.py,                *)
(* base_detector.py).  An enriched event is abstracted to the fields the   *)
(* detectors read; all events are about one high-value item.  Time is in   *)
(* hours since the epoch.  A confidence is the fraction num / den.         *)

\* the events detect is called with: action, quantity, hour
DetectorInputs ==
    {[action |-> "stock_out", quantity |-> 1,    time |-> 10],
     [action |-> "stock_out", quantity |-> 45,   time |-> 10],
     [action |-> "stock_out", quantity |-> 1000, time |-> 23],
     [action |-> "stock_in",  quantity |-> 3000, time |-> 10]}

\* what InventoryProcessor.process and InventoryEnricher.enrich make of such
\* an event, for an item whose details say high_value
EnrichedEvent(f) ==
    LET context == get_business_context([wall |-> f.time, utcoffset |-> 0])
        processed_event ==
            [item_id |-> "I1", location_id |-> "L1", action |-> f.action,
             normalized_action |-> action_mappings(f.action),
             quantity_abs |-> f.quantity,
             quantity_normalized |-> quantity_normalized(f.action, f.quantity),
             total_value |-> 0, timestamp_parsed |-> f.time,
             is_business_hours |-> context.is_business_hours,
             is_weekend |-> context.is_weekend, month |-> 1,
             item_details |-> [perishable |-> FALSE, high_value |-> TRUE,
                               category |-> "Electronics"],
             location_details |-> Unset, classification |-> Unset,
             risk_assessment |-> Unset, seasonal_context |-> Unset]
        classified == [processed_event EXCEPT
                          !.classification = classify_inventory_event(processed_event)]
    IN  [classified EXCEPT !.risk_assessment = assess_risk(classified)]

DetectorEvents == {EnrichedEvent(f) : f \in DetectorInputs}

\* a detector that returns None
None == [is_anomaly |-> FALSE, confidence |-> [num |-> 0, den |-> 1],
         anomaly_type |-> "None", severity |-> "medium"]

\* AnomalyResult(is_anomaly=True, ...)
AnomalyResult(num, den, anomaly_type, severity) ==
    [is_anomaly |-> TRUE, confidence |-> [num |-> num, den |-> den],
     anomaly_type |-> anomaly_type, severity |-> severity]

\* comparison of confidences
Less(a, b) == a.num * b.den < b.num * a.den

RECURSIVE SumSeq(_)
SumSeq(s) == IF s = <<>> THEN 0 ELSE Head(s) + SumSeq(Tail(s))

\* x > k * d, computed without forming k * d
ExceedsTimes(x, k, d) == (x \div k > d) \/ (x \div k = d /\ x % k > 0)

\* BaseAnomalyDetector._matches_pattern
matches_pattern(d1, d2) == d1.action = d2.action /\ d1.item_id = d2.item_id

\* BaseAnomalyDetector._calculate_z_score gives more than k.  With n values
\* x of mean m and deviation sd, |value - m| / sd > k says
\* (sum of y)^2 > k^2 * (n * sum of y^2 - (sum of y)^2) for y = x - value
\* and is false when sd is 0; the shift keeps the numbers small.
z_score_exceeds(value, historical_values, k) ==
    LET n == Len(historical_values)
        y == [i \in 1..n |-> historical_values[i] - value]
        s == SumSeq(y)
        q == SumSeq([i \in 1..n |-> y[i] * y[i]])
        spread == n * q - s * s
    IN  /\ n >= 3
        /\ spread # 0
        /\ ExceedsTimes(s * s, k * k, spread)

\* BaseAnomalyDetector._detect_volume_anomaly
detect_volume_anomaly(events, data) ==
    LET matching == SelectSeq(events, LAMBDA d : matches_pattern(d, data))
        historical_values == [i \in 1..Len(matching) |-> matching[i].quantity_abs]
    IN  IF Len(historical_values) < 5 THEN None
        ELSE IF z_score_exceeds(data.quantity_abs, historical_values, 3)
        THEN AnomalyResult(1, 1, "volume_anomaly",
                 IF z_score_exceeds(data.quantity_abs, historical_values, 5)
                 THEN "high" ELSE "medium")
        ELSE None

\* BaseAnomalyDetector._get_after_hours_frequency is below 0.1
after_hours_frequency_low(events, activity_type) ==
    LET of_type == SelectSeq(events, LAMBDA d : d.action = activity_type)
        after_hours == SelectSeq(of_type, LAMBDA d : ~d.is_business_hours)
    IN  Len(of_type) # 0 /\ 10 * Len(after_hours) < Len(of_type)

\* BaseAnomalyDetector._detect_time_based_anomaly
detect_time_based_anomaly(events, data) ==
    IF ~data.is_business_hours /\ after_hours_frequency_low(events, data.action)
    THEN AnomalyResult(7, 10, "unusual_timing", "medium")
    ELSE None

\* BaseAnomalyDetector._get_historical_frequencies
get_historical_frequencies == <<5, 7, 3, 8, 6, 4, 9, 2, 6, 7>>

\* BaseAnomalyDetector._detect_frequency_anomaly
detect_frequency_anomaly(events, data) ==
    LET recent == SelectSeq(events, LAMBDA d :
                      matches_pattern(d, data)
                      /\ d.timestamp_parsed > data.timestamp_parsed - 1)
    IN  IF z_score_exceeds(Len(recent), get_historical_frequencies, 3)
        THEN AnomalyResult(1, 1, "frequency_anomaly", "medium")
        ELSE None

\* InventoryAnomalyDetector._get_current_stock_level
get_current_stock_level(events, item_id) ==
    LET of_item == SelectSeq(events, LAMBDA d : d.item_id = item_id)
        stock_changes == [i \in 1..Len(of_item) |-> of_item[i].quantity_normalized]
        current_stock == baseline_stock + SumSeq(stock_changes)
    IN  IF current_stock > 0 THEN current_stock ELSE 0

\* InventoryAnomalyDetector._detect_negative_stock
detect_negative_stock(events, data) ==
    IF data.action # "stock_out" THEN None
    ELSE IF get_current_stock_level(events, data.item_id) + data.quantity_normalized
                < 0 - 10
    THEN AnomalyResult(9, 10, "negative_stock_risk", "high")
    ELSE None

\* InventoryAnomalyDetector._detect_rapid_depletion
detect_rapid_depletion(events, data) ==
    LET recent == SelectSeq(events, LAMBDA d :
                      /\ d.item_id = data.item_id
                      /\ d.action = "stock_out"
                      /\ d.timestamp_parsed > data.timestamp_parsed - 1)
        total_depleted == SumSeq([i \in 1..Len(recent) |-> recent[i].quantity_abs])
        current_stock == get_current_stock_level(events, data.item_id)
    IN  IF data.action # "stock_out" THEN None
        ELSE IF current_stock > 0 /\ 10 * total_depleted > 8 * current_stock
        THEN IF total_depleted >= current_stock
             THEN AnomalyResult(1, 1, "rapid_stock_depletion", "high")
             ELSE AnomalyResult(total_depleted, current_stock,
                                "rapid_stock_depletion", "high")
        ELSE None

\* InventoryAnomalyDetector._detect_unusual_location_activity; the float
\* 1 - 0.95 is just above 1/20, so a frequency of exactly 1/20 is below it
detect_unusual_location_activity(events, data) ==
    LET historical == SelectSeq(events, LAMBDA d : d.item_id = data.item_id)
        here == SelectSeq(historical, LAMBDA d : d.location_id = data.location_id)
    IN  IF Len(historical) < 5 THEN None
        ELSE IF 20 * Len(here) <= Len(historical)
        THEN AnomalyResult(Len(historical) - Len(here), Len(historical),
                           "unusual_location", "medium")
        ELSE None

\* InventoryAnomalyDetector._detect_high_value_anomalies
detect_high_value_anomalies(events, data) ==
    LET risk_factors == data.risk_assessment.factors
        present_high_risks ==
            SelectSeq(risk_factors, LAMBDA f :
                f \in {"after_hours", "bulk_transaction", "unusual_location"})
    IN  IF ~item_flag(data, "high_value") THEN None
        ELSE IF Len(present_high_risks) >= 2
        THEN AnomalyResult(8, 10, "high_value_risk_combination", "high")
        ELSE None

\* InventoryAnomalyDetector._detect_supplier_anomalies; every event is of
\* the one item, so of the one supplier
detect_supplier_anomalies(events, data) ==
    LET recent_deliveries == SelectSeq(events, LAMBDA d : d.action = "stock_in")
        n == Len(recent_deliveries)
        last_ten == SubSeq(recent_deliveries, IF n > 10 THEN n - 9 ELSE 1, n)
        weekend_deliveries == Len(SelectSeq(last_ten, LAMBDA d : d.is_weekend))
    IN  IF data.action # "stock_in" \/ n < 3 THEN None
        ELSE IF data.is_weekend /\ 10 * weekend_deliveries < Min(n, 10)
        THEN AnomalyResult(7, 10, "unusual_supplier_delivery_timing", "low")
        ELSE None

\* the detectors in the order detect runs them
Detectors(events, data) ==
    <<detect_volume_anomaly(events, data),
      detect_time_based_anomaly(events, data),
      detect_frequency_anomaly(events, data),
      detect_negative_stock(events, data),
      detect_rapid_depletion(events, data),
      detect_unusual_location_activity(events, data),
      detect_high_value_anomalies(events, data),
      detect_supplier_anomalies(events, data)>>

\* detect, lines 23-42: the list `anomalies`; window already holds data
detected_anomalies(events, data) ==
    SelectSeq(Detectors(events, data), LAMBDA result : result.is_anomaly)

\* max(anomalies, key=lambda x: x.confidence): the first of the hits with
\* the highest confidence
max(hits) ==
    hits[CHOOSE i \in 1..Len(hits) :
            /\ \A j \in 1..Len(hits) : ~Less(hits[i].confidence, hits[j].confidence)
            /\ \A j \in 1..(i - 1) : Less(hits[j].confidence, hits[i].confidence)]

\* detect, lines 45-55: what it returns
best_of(hits) ==
    IF hits = <<>>
    THEN [is_anomaly |-> FALSE, confidence |-> [num |-> 0, den |-> 1],
          anomaly_type |-> "none", severity |-> "medium"]
    ELSE max(hits)

\* BaseAnomalyDetector.__init__ for an item whose hash gives the baseline
DetectorInit(baseline) ==
    /\ data_window = <<>>
    /\ baseline_stock = baseline
    /\ anomalies = <<>>
    /\ best_anomaly = None
    /\ detect_calls = 0

\* batch_detect: detect for each event of the batch in turn; each call
\* appends its event to the window first.  Kept: the hits and the result
\* of the last call.
BatchDetect(data_batch) ==
    /\ detect_calls < MaxDetectCalls
    /\ detect_calls' = detect_calls + 1
    /\ data_window' = data_window \o data_batch
    /\ LET data == data_batch[Len(data_batch)]
       IN  /\ anomalies' = detected_anomalies(data_window', data)
           /\ best_anomaly' = best_of(anomalies')
    /\ UNCHANGED <<baseline_stock, nonDetector>>

\* InventoryAnomalyDetector.detect
Detect(data) ==
    /\ detect_calls < MaxDetectCalls
    /\ detect_calls' = detect_calls + 1
    /\ data_window' = Append(data_window, data)
    /\ anomalies' = detected_anomalies(data_window', data)
    /\ best_anomaly' = best_of(anomalies')
    /\ UNCHANGED <<baseline_stock, nonDetector>>

----------------------------------------------------------------------------
(* KafkaClient.send_message (kafka_client.py).  A value is abstracted to   *)
(* whether json.dumps accepts it.                                          *)

\* the values handed to send_message: plain JSON data, and the enriched
\* record, which holds timestamp_parsed, a datetime
SendValues ==
    {[id |-> "v1", timestamp_parsed |-> "none"],
     [id |-> "v2", timestamp_parsed |-> "none"],
     [id |-> "v3", timestamp_parsed |-> "datetime"]}

SendKeys == {"none", "k1"}

\* the default value_serializer of create_producer: json.dumps raises
\* TypeError on a datetime
json_dumps_raises(value) == value.timestamp_parsed = "datetime"

\* What the producer does with a serialized record: future.get returns the
\* metadata ("confirmed"), raises a KafkaError the broker reported
\* ("broker_error"), or raises KafkaTimeoutError after 10 s, the record
\* lost ("timeout") or written after all ("timeout_written").
Deliveries == {"confirmed", "broker_error", "timeout", "timeout_written"}

\* KafkaProducer(...) in create_producer: the bootstrap succeeds, or raises
\* NoBrokersAvailable
Bootstraps == {"connected", "no_brokers"}

NoSend == [outcome |-> "none"]

\* KafkaClient.__init__: no producer, nothing sent
ProducerInit ==
    /\ producer = FALSE
    /\ topic_records = <<>>
    /\ last_send = NoSend
    /\ send_calls = 0

\* send_message ends by returning True or False, or with the exception that
\* left it: create_producer is called before the try, the serializer runs
\* inside producer.send and its TypeError is no KafkaError
send_outcome(has_producer, value, bootstrap, delivery) ==
    IF ~has_producer /\ bootstrap = "no_brokers" THEN "NoBrokersAvailable"
    ELSE IF json_dumps_raises(value) THEN "TypeError"
    ELSE IF delivery = "confirmed" THEN "true"
    ELSE "false"

\* send_message(topic, value, key)
SendMessage(value, key, bootstrap, delivery) ==
    /\ send_calls < MaxSendCalls
    /\ send_calls' = send_calls + 1
    /\ producer' = (producer \/ bootstrap = "connected")
    /\ last_send' = [call |-> send_calls', value |-> value, key |-> key,
                     outcome |-> send_outcome(producer, value, bootstrap, delivery)]
    /\ topic_records' =
           IF /\ last_send'.outcome \in {"true", "false"}
              /\ delivery \in {"confirmed", "timeout_written"}
           THEN Append(topic_records, <<value, key>>)
           ELSE topic_records
    /\ UNCHANGED nonProducer

----------------------------------------------------------------------------
(* InventoryService (backend/inventory/services.py) over the tables        *)
(* StockLevel, Location and InventoryMovement.  One item is stocked; a     *)
(* database is the record of the three tables.  Every service method is    *)
(* wrapped in transaction.atomic.                                          *)

\* the item ids of the calls: the stocked item, and one that does not exist
ItemIds == {"I1", "I0"}

\* the location ids of the calls: two active locations, and one that does
\* not exist
LocationIds == {1, 2, 9}

ActiveLocations == {1, 2}

\* Location.capacity
capacity(location_id) == IF location_id = 1 THEN 4 ELSE 1

\* get_object_or_404(Item, ...) and get_object_or_404(Location, ...) find
\* their rows
found(item_id, location_id) == item_id = "I1" /\ location_id \in ActiveLocations

\* the quantity of the item's StockLevel row at the location, 0 without a row
quantity_at(db, location_id) ==
    IF location_id \in DOMAIN db.stock_levels THEN db.stock_levels[location_id] ELSE 0

\* a method's normal return, and its end by an exception
Return(db) == [raised |-> "none", db |-> db]
Raise(error, db) == [raised |-> error, db |-> db]

\* the exception leaves the method and the tables stay as the method's
\* writes left them
not_atomic(before, result) == result

\* transaction.atomic: an exception leaving the block rolls back every
\* write made inside it
atomic(before, result) ==
    IF result.raised # "none" THEN Raise(result.raised, before) ELSE result

\* InventoryMovement.objects.create
create_movement(db, location_id, action, quantity, previous_quantity, new_quantity) ==
    [db EXCEPT !.movements =
        Append(@, [location |-> location_id, action |-> action, quantity |-> quantity,
                   previous_quantity |-> previous_quantity,
                   new_quantity |-> new_quantity])]

\* stock_in
stock_in(db, item_id, location_id, quantity) ==
    atomic(db,
        IF quantity <= 0 THEN Raise("ValueError", db)
        ELSE IF ~found(item_id, location_id) THEN Raise("Http404", db)
        ELSE LET previous_quantity == quantity_at(db, location_id)
                 new_quantity == previous_quantity + quantity
                 saved == [db EXCEPT
                             !.stock_levels = MapSet(@, location_id, new_quantity),
                             !.current_utilization[location_id] = @ + quantity]
             IN Return(create_movement(saved, location_id, "stock_in", quantity,
                                         previous_quantity, new_quantity)))

\* the stock level is lowered without the test for a negative result
stock_out_unchecked(db, item_id, location_id, quantity) ==
    atomic(db,
        IF quantity <= 0 THEN Raise("ValueError", db)
        ELSE IF ~found(item_id, location_id) THEN Raise("Http404", db)
        ELSE IF location_id \notin DOMAIN db.stock_levels THEN Raise("ValueError", db)
        ELSE LET previous_quantity == db.stock_levels[location_id]
                 new_quantity == previous_quantity - quantity
                 saved == [db EXCEPT
                             !.stock_levels[location_id] = new_quantity,
                             !.current_utilization[location_id] =
                                 IF @ - quantity > 0 THEN @ - quantity ELSE 0]
             IN Return(create_movement(saved, location_id, "stock_out", -quantity,
                                         previous_quantity, new_quantity)))

\* stock_out
stock_out(db, item_id, location_id, quantity) ==
    atomic(db,
        IF quantity <= 0 THEN Raise("ValueError", db)
        ELSE IF ~found(item_id, location_id) THEN Raise("Http404", db)
        ELSE IF location_id \notin DOMAIN db.stock_levels THEN Raise("ValueError", db)
        ELSE LET previous_quantity == db.stock_levels[location_id]
                 new_quantity == previous_quantity - quantity
                 saved == [db EXCEPT
                             !.stock_levels[location_id] = new_quantity,
                             !.current_utilization[location_id] =
                                 IF @ - quantity > 0 THEN @ - quantity ELSE 0]
             IN IF new_quantity < 0 THEN Raise("ValueError", db)
                ELSE Return(create_movement(saved, location_id, "stock_out",
                                              -quantity, previous_quantity,
                                              new_quantity)))

\* the last two movements with their action set to transfer
relabelled(db) ==
    [db EXCEPT !.movements =
        [i \in 1..Len(@) |-> IF i >= Len(@) - 1
                              THEN [@[i] EXCEPT !.action = "transfer"] ELSE @[i]]]

\* the two movements keep the actions stock_out and stock_in
stock_transfer_unlabelled(db, item_id, from_location_id, to_location_id, quantity) ==
    atomic(db,
        IF quantity <= 0 THEN Raise("ValueError", db)
        ELSE IF from_location_id = to_location_id THEN Raise("ValueError", db)
        ELSE IF ~found(item_id, from_location_id) \/ ~found(item_id, to_location_id)
             THEN Raise("Http404", db)
        ELSE IF db.current_utilization[to_location_id] + quantity
                    > capacity(to_location_id)
             THEN Raise("ValueError", db)
        ELSE LET out == stock_out(db, item_id, from_location_id, quantity)
             IN IF out.raised # "none" THEN out
                ELSE stock_in(out.db, item_id, to_location_id, quantity))

\* stock_transfer
stock_transfer(db, item_id, from_location_id, to_location_id, quantity) ==
    atomic(db,
        IF quantity <= 0 THEN Raise("ValueError", db)
        ELSE IF from_location_id = to_location_id THEN Raise("ValueError", db)
        ELSE IF ~found(item_id, from_location_id) \/ ~found(item_id, to_location_id)
             THEN Raise("Http404", db)
        ELSE IF db.current_utilization[to_location_id] + quantity
                    > capacity(to_location_id)
             THEN Raise("ValueError", db)
        ELSE LET out == stock_out(db, item_id, from_location_id, quantity)
             IN IF out.raised # "none" THEN out
                ELSE LET inward == stock_in(out.db, item_id, to_location_id, quantity)
                     IN IF inward.raised # "none" THEN inward
                        ELSE Return(relabelled(inward.db)))

\* stock_adjustment: get_or_create writes the missing row before the test
stock_adjustment(db, item_id, location_id, quantity_change) ==
    atomic(db,
        IF quantity_change = 0 THEN Raise("ValueError", db)
        ELSE IF ~found(item_id, location_id) THEN Raise("Http404", db)
        ELSE LET previous_quantity == quantity_at(db, location_id)
                 new_quantity == previous_quantity + quantity_change
                 created == [db EXCEPT
                               !.stock_levels = MapSet(@, location_id, previous_quantity)]
                 saved == [db EXCEPT
                             !.stock_levels = MapSet(@, location_id, new_quantity),
                             !.current_utilization[location_id] =
                                 IF @ + quantity_change > 0
                                 THEN @ + quantity_change ELSE 0]
             IN IF new_quantity < 0 THEN Raise("ValueError", created)
                ELSE Return(create_movement(saved, location_id, "adjustment",
                                              quantity_change, previous_quantity,
                                              new_quantity)))

\* bulk_movements, one pass of its loop
one_movement(db, movement_data) ==
    CASE movement_data.action = "stock_in" ->
           stock_in(db, movement_data.item_id, movement_data.location_id,
                    abs(movement_data.quantity))
      [] movement_data.action = "stock_out" ->
           stock_out(db, movement_data.item_id, movement_data.location_id,
                     abs(movement_data.quantity))
      [] movement_data.action = "transfer" ->
           stock_transfer(db, movement_data.item_id, movement_data.location_id,
                          movement_data.destination_location_id,
                          abs(movement_data.quantity))
      [] movement_data.action = "adjustment" ->
           stock_adjustment(db, movement_data.item_id, movement_data.location_id,
                            movement_data.quantity)
      [] OTHER -> Raise("ValueError", db)

RECURSIVE bulk_loop(_, _, _)
\* bulk_movements: the loop from the i-th movement on
bulk_loop(db, movements_data, i) ==
    IF i > Len(movements_data) THEN Return(db)
    ELSE LET step == one_movement(db, movements_data[i])
         IN IF step.raised # "none" THEN step
            ELSE bulk_loop(step.db, movements_data, i + 1)

\* bulk_movements (the limit of 100 movements is not reached)
bulk_movements(db, movements_data) ==
    atomic(db,
        IF movements_data = <<>> THEN Raise("ValueError", db)
        ELSE bulk_loop(db, movements_data, 1))

\* the quantities of the calls
CallQuantities == (0 - MaxMove)..MaxMove

\* one entry of movements_data
MovementData(action, location_id, destination_location_id, quantity) ==
    [action |-> action, item_id |-> "I1", location_id |-> location_id,
     destination_location_id |-> destination_location_id, quantity |-> quantity]

\* The lists bulk_movements is called with: the empty list, lists that
\* succeed, lists whose second or last movement fails after the first was
\* written, and an unknown action.
BulkInputs ==
    {<<>>,
     <<MovementData("stock_in", 1, 1, 2)>>,
     <<MovementData("stock_in", 1, 1, 2), MovementData("transfer", 1, 2, 1)>>,
     <<MovementData("stock_in", 1, 1, 1), MovementData("stock_out", 1, 1, 2)>>,
     <<MovementData("stock_in", 2, 2, 1), MovementData("adjustment", 1, 1, -1)>>,
     <<MovementData("adjustment", 2, 2, 1), MovementData("transfer", 2, 1, -1),
       MovementData("stock_out", 1, 1, 1)>>,
     <<MovementData("stock_out", 1, 1, 1), MovementData("count", 1, 1, 1)>>}

\* the three tables as one database
Database ==
    [stock_levels |-> stock_levels, current_utilization |-> current_utilization,
     movements |-> movements]

NoServiceCall == [op |-> "none"]

\* the service calls that run at once
Transactions == 1..MaxTransactions

NoTransaction == [pc |-> "none"]

\* no service call: empty tables
ServiceInit ==
    /\ stock_levels = <<>>
    /\ current_utilization = [l \in ActiveLocations |-> 0]
    /\ movements = <<>>
    /\ last_call = NoServiceCall
    /\ service_calls = 0
    /\ transactions = [t \in Transactions |-> NoTransaction]

\* a service call ended: the tables are what it left, its arguments and
\* outcome are recorded
Called(op, args, result) ==
    /\ stock_levels' = result.db.stock_levels
    /\ current_utilization' = result.db.current_utilization
    /\ movements' = result.db.movements
    /\ last_call' = [op |-> op, args |-> args, raised |-> result.raised,
                     before |-> Database]
    /\ UNCHANGED transactions

StockIn(item_id, location_id, quantity) ==
    /\ service_calls < MaxServiceCalls
    /\ service_calls' = service_calls + 1
    /\ Called("stock_in", <<item_id, location_id, 0, quantity>>,
              stock_in(Database, item_id, location_id, quantity))
    /\ UNCHANGED nonService

StockOut(item_id, location_id, quantity) ==
    /\ service_calls < MaxServiceCalls
    /\ service_calls' = service_calls + 1
    /\ Called("stock_out", <<item_id, location_id, 0, quantity>>,
              stock_out(Database, item_id, location_id, quantity))
    /\ UNCHANGED nonService

StockTransfer(item_id, from_location_id, to_location_id, quantity) ==
    /\ service_calls < MaxServiceCalls
    /\ service_calls' = service_calls + 1
    /\ Called("stock_transfer", <<item_id, from_location_id, to_location_id, quantity>>,
              stock_transfer(Database, item_id, from_location_id, to_location_id,
                             quantity))
    /\ UNCHANGED nonService

StockAdjustment(item_id, location_id, quantity_change) ==
    /\ service_calls < MaxServiceCalls
    /\ service_calls' = service_calls + 1
    /\ Called("stock_adjustment", <<item_id, location_id, 0, quantity_change>>,
              stock_adjustment(Database, item_id, location_id, quantity_change))
    /\ UNCHANGED nonService

BulkMovements(movements_data) ==
    /\ service_calls < MaxServiceCalls
    /\ service_calls' = service_calls + 1
    /\ Called("bulk_movements", <<"I1", 0, 0, Len(movements_data)>>,
              bulk_movements(Database, movements_data))
    /\ UNCHANGED nonService

----------------------------------------------------------------------------
(* The consumer handles of the pipeline process (main.py, kafka_client.py, *)
(* base_consumer.py): the worker thread and the health thread share the    *)
(* manager's KafkaClient, and each handle is built by its create_consumer. *)

\* KafkaClient() in ProcessingPipelineManager.__init__: the default group
ClientGroup == "warehouse-processing"

\* create_consumer: KafkaConsumer(*topics, group_id=self.consumer_group, ...)
NewHandle(owner, topics) ==
    [owner |-> owner, group_id |-> ClientGroup, topics |-> topics, open |-> TRUE]

\* ProcessingPipelineManager.start up to the start of its threads
HandlesInit ==
    /\ handles = <<>>
    /\ client_consumer = 0
    /\ worker_consumer = 0
    /\ health_pc = "sleeping"
    /\ health_results = <<>>
    /\ manager_running = TRUE

\* BaseConsumer.start in the worker thread: self.consumer =
\* self.kafka_client.create_consumer(topics=self.topics, ...), which also
\* sets KafkaClient.consumer
WorkerCreatesConsumer ==
    /\ manager_running
    /\ worker_consumer = 0
    /\ handles' = Append(handles, NewHandle("worker", "warehouse.inventory"))
    /\ worker_consumer' = Len(handles')
    /\ client_consumer' = Len(handles')
    /\ UNCHANGED <<health_pc, health_results, manager_running, nonHandles>>

\* _check_kafka_health, first half: create_consumer([TopicConfig.INVENTORY])
\* on the shared client builds a test consumer, or raises and the check
\* returns "disconnected"
HealthCreatesConsumer(reachable) ==
    /\ manager_running
    /\ health_pc = "sleeping"
    /\ Len(health_results) < MaxHealthChecks
    /\ IF reachable
       THEN /\ handles' = Append(handles, NewHandle("health", "warehouse.inventory"))
            /\ client_consumer' = Len(handles')
            /\ health_pc' = "created"
            /\ UNCHANGED health_results
       ELSE /\ health_results' = Append(health_results, "disconnected")
            /\ UNCHANGED <<handles, client_consumer, health_pc>>
    /\ UNCHANGED <<worker_consumer, manager_running, nonHandles>>

\* _check_kafka_health, second half: test_consumer.close(), "connected"
HealthClosesConsumer ==
    /\ health_pc = "created"
    /\ \E i \in 1..Len(handles) :
          /\ handles[i].owner = "health" /\ handles[i].open
          /\ handles' = [handles EXCEPT ![i].open = FALSE]
    /\ health_results' = Append(health_results, "connected")
    /\ health_pc' = IF manager_running THEN "sleeping" ELSE "stopped"
    /\ UNCHANGED <<client_consumer, worker_consumer, manager_running, nonHandles>>

\* ProcessingPipelineManager.stop: consumer.stop() closes the worker's
\* handle, kafka_client.close() closes the handle KafkaClient.consumer
\* refers to; the health loop ends at its next test of self.running
ManagerStops ==
    /\ manager_running
    /\ manager_running' = FALSE
    /\ handles' = [i \in 1..Len(handles) |->
                      IF i \in {worker_consumer, client_consumer}
                      THEN [handles[i] EXCEPT !.open = FALSE] ELSE handles[i]]
    /\ health_pc' = IF health_pc = "sleeping" THEN "stopped" ELSE health_pc
    /\ UNCHANGED <<client_consumer, worker_consumer, health_results, nonHandles>>

----------------------------------------------------------------------------
(* InventoryService under concurrent calls.  Each call runs in its own     *)
(* transaction.atomic block on its own database connection: it reads the   *)
(* StockLevel and Location rows with plain SELECTs, computes in Python,    *)
(* and writes the rows back with save().  The writes of a transaction      *)
(* become visible together at its commit, and a row written by a           *)
(* transaction stays locked until then, so a call is two steps: its reads  *)
(* and checks, and its writes with the commit.  All calls are on item I1   *)
(* at location 1, whose StockLevel row exists.                             *)

\* the calls: stock_in and stock_out with a positive quantity, adjustment
\* with a change that is not zero
ConcurrentCalls ==
    [op : {"stock_in", "stock_out"}, quantity : 1..MaxMove]
        \cup [op : {"adjustment"}, quantity : CallQuantities \ {0}]

\* the quantity written to InventoryMovement.quantity: -quantity for
\* stock_out, the quantity for stock_in, quantity_change for an adjustment
signed_quantity(c) == IF c.op = "stock_out" THEN 0 - c.quantity ELSE c.quantity

\* what a database does with a write to a row that another transaction
\* changed and committed after this one read it: READ COMMITTED (the
\* default of PostgreSQL, which Django keeps) lets the write through;
\* a snapshot isolation level or a file lock makes it fail
StaleWriteOutcomes == {"written", "OperationalError"}

\* the StockLevel row exists, no call has run
ConcurrentInit ==
    /\ stock_levels = MapSet(<<>>, 1, InitialStock)
    /\ current_utilization = [l \in ActiveLocations |-> InitialStock]
    /\ movements = <<>>
    /\ last_call = NoServiceCall
    /\ service_calls = 0
    /\ transactions = [t \in Transactions |-> NoTransaction]

\* stock_in / stock_out / stock_adjustment up to stock_level.save(): the
\* rows are read, new_quantity is computed, and stock_out and
\* stock_adjustment raise ValueError when it is negative
TransactionReads(t, c) ==
    /\ transactions[t].pc = "none"
    /\ LET previous_quantity == quantity_at(Database, 1)
           new_quantity == previous_quantity + signed_quantity(c)
       IN  transactions' = [transactions EXCEPT ![t] =
               IF c.op # "stock_in" /\ new_quantity < 0
               THEN [pc |-> "raised", call |-> c]
               ELSE [pc |-> "read", call |-> c,
                     previous_quantity |-> previous_quantity,
                     new_quantity |-> new_quantity,
                     utilization |-> current_utilization[1],
                     seen |-> Len(movements)]]
    /\ UNCHANGED <<stock_levels, current_utilization, movements, last_call,
                   service_calls, nonService>>

\* the rest of the call: stock_level.save(), location.save(),
\* InventoryMovement.objects.create, and the commit at the end of the
\* atomic block
TransactionWrites(t) ==
    /\ transactions[t].pc = "read"
    /\ LET tx == transactions[t]
           c == tx.call
           stale == Len(movements) > tx.seen
           utilization == IF c.op = "stock_in" THEN tx.utilization + c.quantity
                          ELSE IF c.op = "stock_out"
                               THEN IF tx.utilization - c.quantity < 0 THEN 0
                                    ELSE tx.utilization - c.quantity
                          ELSE IF tx.utilization + c.quantity < 0 THEN 0
                               ELSE tx.utilization + c.quantity
           saved == [Database EXCEPT
                       !.stock_levels = MapSet(@, 1, tx.new_quantity),
                       !.current_utilization[1] = utilization]
           db == create_movement(saved, 1, c.op, signed_quantity(c),
                                 tx.previous_quantity, tx.new_quantity)
       IN  \E outcome \in IF stale THEN StaleWriteOutcomes ELSE {"written"} :
             IF outcome = "written"
             THEN /\ stock_levels' = db.stock_levels
                  /\ current_utilization' = db.current_utilization
                  /\ movements' = db.movements
                  /\ transactions' = [transactions EXCEPT ![t].pc = "committed"]
             ELSE /\ transactions' = [transactions EXCEPT ![t].pc = "raised"]
                  /\ UNCHANGED <<stock_levels, current_utilization, movements>>
    /\ UNCHANGED <<last_call, service_calls, nonService>>

----------------------------------------------------------------------------
(* OrderService (orders/services.py): one order with one order item, from  *)
(* the moment create_order has returned.  Calls run one at a time, each in *)
(* transaction.atomic.                                                     *)

\* Order.STATUS_CHOICES
OrderStatuses ==
    {"pending", "confirmed", "processing", "picking", "packed", "shipped",
     "delivered", "cancelled", "returned"}

\* every status may follow every status
any_transition(old_status) == OrderStatuses

\* update_order_status: valid_transitions.get(old_status, [])
valid_transitions(old_status) ==
    CASE old_status = "pending" -> {"confirmed", "cancelled"}
      [] old_status = "confirmed" -> {"processing", "cancelled"}
      [] old_status = "processing" -> {"picking", "cancelled"}
      [] old_status = "picking" -> {"packed", "cancelled"}
      [] old_status = "packed" -> {"shipped"}
      [] old_status = "shipped" -> {"delivered"}
      [] old_status = "delivered" -> {"returned"}
      [] OTHER -> {}

\* OrderItem.quantity of the order's item
OrderQuantity == MaxPick

\* the task ids of the calls: the tasks the order can have, and one more
TaskIds == 1..(MaxPick + 1)

\* the workers
Workers == {"w1", "w2"}

\* create_picking_tasks: the quantities of the StockLevel rows that hold
\* the item, largest first, or too little stock for the order item
StockSplits ==
    {split \in UNION {[1..n -> 1..OrderQuantity] : n \in 0..OrderQuantity} :
        \A i \in 1..(Len(split) - 1) : split[i] >= split[i + 1]}

\* the order's rows as one database
OrderDb ==
    [status |-> order_status, history |-> status_history,
     tasks |-> picking_tasks, picked_quantity |-> picked_quantity]

NoOrderCall == [op |-> "none", raised |-> "none"]

\* create_order has returned: status 'pending', the initial status record,
\* no picking tasks
OrderInit ==
    /\ order_status = "pending"
    /\ status_history = <<[from_status |-> "", to_status |-> "pending"]>>
    /\ picking_tasks = <<>>
    /\ picked_quantity = 0
    /\ last_order_call = NoOrderCall

\* update_order_status
update_order_status(db, new_status) ==
    atomic(db,
        IF new_status \notin valid_transitions(db.status)
        THEN Raise("ValueError", db)
        ELSE Return([db EXCEPT
                       !.status = new_status,
                       !.history = Append(@, [from_status |-> db.status,
                                              to_status |-> new_status])]))

\* cancel_order
cancel_order(db) ==
    atomic(db,
        IF db.status \in {"shipped", "delivered", "cancelled", "returned"}
        THEN Raise("ValueError", db)
        ELSE update_order_status(db, "cancelled"))

\* the tasks create_picking_tasks creates for the order item from the stock
\* levels, until nothing remains to pick
RECURSIVE tasks_for(_, _)
tasks_for(stock, remaining_quantity) ==
    IF stock = <<>> \/ remaining_quantity <= 0 THEN <<>>
    ELSE LET quantity_to_pick == IF remaining_quantity < Head(stock)
                                 THEN remaining_quantity ELSE Head(stock)
         IN  <<[status |-> "pending", assigned_to |-> "",
                quantity_to_pick |-> quantity_to_pick, quantity_picked |-> 0]>>
             \o tasks_for(Tail(stock), remaining_quantity - quantity_to_pick)

\* the sum of quantity_to_pick over tasks
RECURSIVE to_pick(_)
to_pick(tasks) ==
    IF tasks = <<>> THEN 0 ELSE Head(tasks).quantity_to_pick + to_pick(Tail(tasks))

\* create_picking_tasks
create_picking_tasks(db, stock) ==
    atomic(db,
        IF db.status # "processing" THEN Raise("ValueError", db)
        ELSE LET created == tasks_for(stock, OrderQuantity)
             IN  IF to_pick(created) < OrderQuantity THEN Raise("ValueError", db)
                 ELSE update_order_status([db EXCEPT !.tasks = @ \o created], "picking"))

\* assign_picking_task
assign_picking_task(db, task_id, assigned_to) ==
    atomic(db,
        IF task_id \notin DOMAIN db.tasks THEN Raise("Http404", db)
        ELSE IF db.tasks[task_id].status # "pending" THEN Raise("ValueError", db)
        ELSE Return([db EXCEPT !.tasks[task_id].status = "assigned",
                               !.tasks[task_id].assigned_to = assigned_to]))

\* start_picking_task
start_picking_task(db, task_id, user) ==
    atomic(db,
        IF task_id \notin DOMAIN db.tasks THEN Raise("Http404", db)
        ELSE IF db.tasks[task_id].status # "assigned" THEN Raise("ValueError", db)
        ELSE IF db.tasks[task_id].assigned_to # user THEN Raise("ValueError", db)
        ELSE Return([db EXCEPT !.tasks[task_id].status = "in_progress"]))

\* complete_picking_task; stock_out_returns is whether InventoryService.stock_out
\* finds the stock it is asked for
complete_picking_task(db, task_id, quantity_picked, user, stock_out_returns) ==
    atomic(db,
        IF task_id \notin DOMAIN db.tasks THEN Raise("Http404", db)
        ELSE IF db.tasks[task_id].status # "in_progress" THEN Raise("ValueError", db)
        ELSE IF db.tasks[task_id].assigned_to # user THEN Raise("ValueError", db)
        ELSE IF quantity_picked > db.tasks[task_id].quantity_to_pick
             THEN Raise("ValueError", db)
        ELSE LET updated == [db EXCEPT
                               !.tasks[task_id].quantity_picked = quantity_picked,
                               !.tasks[task_id].status = "completed",
                               !.picked_quantity = @ + quantity_picked]
                 all_completed == \A i \in DOMAIN updated.tasks :
                                     updated.tasks[i].status = "completed"
                 all_picked == updated.picked_quantity >= OrderQuantity
             IN  IF quantity_picked > 0 /\ ~stock_out_returns
                 THEN Raise("ValueError", db)
                 ELSE IF all_completed /\ all_picked
                      THEN update_order_status(updated, "packed")
                      ELSE Return(updated))

\* an OrderService call ended: the rows are what it left
OrderCalled(result) ==
    /\ order_status' = result.db.status
    /\ status_history' = result.db.history
    /\ picking_tasks' = result.db.tasks
    /\ picked_quantity' = result.db.picked_quantity

UpdateOrderStatus(new_status) ==
    LET result == update_order_status(OrderDb, new_status)
    IN  /\ last_order_call' = [op |-> "update_order_status", raised |-> result.raised]
        /\ OrderCalled(result)
        /\ UNCHANGED nonOrders

CancelOrder ==
    LET result == cancel_order(OrderDb)
    IN  /\ last_order_call' = [op |-> "cancel_order", raised |-> result.raised]
        /\ OrderCalled(result)
        /\ UNCHANGED nonOrders

CreatePickingTasks(stock) ==
    LET result == create_picking_tasks(OrderDb, stock)
    IN  /\ last_order_call' = [op |-> "create_picking_tasks", raised |-> result.raised]
        /\ OrderCalled(result)
        /\ UNCHANGED nonOrders

AssignPickingTask(task_id, assigned_to) ==
    LET result == assign_picking_task(OrderDb, task_id, assigned_to)
    IN  /\ last_order_call' = [op |-> "assign_picking_task", raised |-> result.raised]
        /\ OrderCalled(result)
        /\ UNCHANGED nonOrders

StartPickingTask(task_id, user) ==
    LET result == start_picking_task(OrderDb, task_id, user)
    IN  /\ last_order_call' = [op |-> "start_picking_task", raised |-> result.raised]
        /\ OrderCalled(result)
        /\ UNCHANGED nonOrders

CompletePickingTask(task_id, quantity_picked, user, stock_out_returns) ==
    LET result == complete_picking_task(OrderDb, task_id, quantity_picked, user,
                                        stock_out_returns)
    IN  /\ last_order_call' = [op |-> "complete_picking_task", raised |-> result.raised]
        /\ OrderCalled(result)
        /\ UNCHANGED nonOrders

----------------------------------------------------------------------------
(* Specifications *)

Init ==
    /\ PipelineInit
    /\ AlertInit("warning")
    /\ StorageInit(FullConfig)
    /\ WindowInit(1)
    /\ MessageInit(IdleMessage)
    /\ IdleEnricher
    /\ DetectorInit(100)
    /\ IdleRules
    /\ ProducerInit
    /\ ServiceInit
    /\ HandlesInit
    /\ OrderInit

Next ==
    \/ Produce
    \/ WorkerStart
    \/ LoopExit
    \/ Poll
    \/ Iterate
    \/ EndOfPack
    \/ ProcessMessage
    \/ ProcessBatch
    \/ CommitOffsets
    \/ ManagerStart
    \/ StartConsumers
    \/ MainLoopExit
    \/ Signal
    \/ Restart

\* the pipeline process, its input topic and its consumer group
Spec == Init /\ [][Next]_vars

\* every step of the two threads is eventually taken when it stays possible;
\* producers, signals and restarts are under no obligation
Fairness ==
    /\ WF_vars(WorkerStart)
    /\ WF_vars(LoopExit)
    /\ WF_vars(Poll)
    /\ WF_vars(Iterate)
    /\ WF_vars(EndOfPack)
    /\ WF_vars(ProcessMessage)
    /\ WF_vars(ProcessBatch)
    /\ WF_vars(CommitOffsets)
    /\ WF_vars(ManagerStart)
    /\ WF_vars(StartConsumers)
    /\ WF_vars(MainLoopExit)

FairSpec == Init /\ [][Next]_vars /\ Fairness

AlertInitAll ==
    /\ PipelineInit
    /\ \E minimum \in Severities : AlertInit(minimum)
    /\ StorageInit(FullConfig)
    /\ WindowInit(1)
    /\ MessageInit(IdleMessage)
    /\ IdleEnricher
    /\ DetectorInit(100)
    /\ IdleRules
    /\ ProducerInit
    /\ ServiceInit
    /\ HandlesInit
    /\ OrderInit

AlertNext ==
    \/ \E id \in AlertIds, sev \in Severities : CreateAlert(id, sev)
    \/ ChannelSend
    \/ GatherReturn
    \/ \E id \in AlertIds : AcknowledgeAlert(id, "operator")
    \/ \E id \in AlertIds : ResolveAlert(id)

\* the alert manager, its coroutines interleaving at their await points
AlertSpec == AlertInitAll /\ [][AlertNext]_vars

StorageInitAll ==
    /\ PipelineInit
    /\ AlertInit("warning")
    /\ \E cfg \in StorageConfigs : StorageInit(cfg)
    /\ WindowInit(1)
    /\ MessageInit(IdleMessage)
    /\ IdleEnricher
    /\ DetectorInit(100)
    /\ IdleRules
    /\ ProducerInit
    /\ ServiceInit
    /\ HandlesInit
    /\ OrderInit

StorageNext ==
    \/ ConnectAll
    \/ DisconnectAll
    \/ call = NoStore /\ storeRet = NoRet /\
           \E input \in StoreInputs : StoreData(input.data, input.data_type)
    \/ call = NoStore /\ storeRet = NoRet /\
           \E data_list \in BatchInputs, data_type \in {"", "alerts"} :
               BatchStoreData(data_list, data_type)
    \/ AdapterBatchStore
    \/ TasksJoined
    \/ Returned

AlertRunningAll ==
    /\ PipelineInit
    /\ \E existing \in SUBSET AlertIds : AlertRunning("warning", existing)
    /\ StorageInit(FullConfig)
    /\ WindowInit(1)
    /\ MessageInit(IdleMessage)
    /\ IdleEnricher
    /\ DetectorInit(100)
    /\ IdleRules
    /\ ProducerInit
    /\ ServiceInit
    /\ HandlesInit
    /\ OrderInit

\* the alert manager observed from a moment when some alerts are active
AlertRunningSpec == AlertRunningAll /\ [][AlertNext]_vars

\* the lists of at most MaxRules rules
RuleLists == UNION {[1..n -> Rules] : n \in 0..MaxRules}

RulesInitAll ==
    /\ PipelineInit
    /\ \E existing \in SUBSET AlertIds : AlertRunning("warning", existing)
    /\ StorageInit(FullConfig)
    /\ WindowInit(1)
    /\ MessageInit(IdleMessage)
    /\ IdleEnricher
    /\ DetectorInit(100)
    /\ \E rules \in RuleLists, data \in RuleData : RulesInit(rules, data)
    /\ ProducerInit
    /\ ServiceInit
    /\ HandlesInit
    /\ OrderInit

RulesNext ==
    \/ EvaluateRule
    \/ RuleResume
    \/ ChannelSend
    \/ GatherReturn

\* one call of evaluate_rules on a running alert manager, its notification
\* tasks interleaving with it
RulesSpec == RulesInitAll /\ [][RulesNext]_vars

\* the storage manager, its coroutines interleaving at their await points
StorageSpec == StorageInitAll /\ [][StorageNext]_vars

WindowInitAll ==
    /\ PipelineInit
    /\ AlertInit("warning")
    /\ StorageInit(FullConfig)
    /\ \E size \in 1..MaxWindow : WindowInit(size)
    /\ MessageInit(IdleMessage)
    /\ IdleEnricher
    /\ DetectorInit(100)
    /\ IdleRules
    /\ ProducerInit
    /\ ServiceInit
    /\ HandlesInit
    /\ OrderInit

WindowNext == \E timestamp \in Timestamps : Add(timestamp, "event")

\* one TimeWindow under any sequence of add calls
WindowSpec == WindowInitAll /\ [][WindowNext]_vars

MessageInitAll ==
    /\ PipelineInit
    /\ AlertInit("warning")
    /\ StorageInit(FullConfig)
    /\ WindowInit(1)
    /\ \E data \in Messages : MessageInit(data)
    /\ IdleEnricher
    /\ DetectorInit(100)
    /\ IdleRules
    /\ ProducerInit
    /\ ServiceInit
    /\ HandlesInit
    /\ OrderInit

MessageNext ==
    \/ Validate
    \/ Process
    \/ DetectAndReturn

\* process_message on any one message
MessageSpec == MessageInitAll /\ [][MessageNext]_vars

EnricherInitAll ==
    /\ PipelineInit
    /\ AlertInit("warning")
    /\ StorageInit(FullConfig)
    /\ WindowInit(1)
    /\ MessageInit(IdleMessage)
    /\ \E data \in ProcessedEvents, mock \in [item : ItemDetails, location : LocationDetails],
          cached \in [item : BOOLEAN, location : BOOLEAN],
          client \in BOOLEAN, stored \in RedisItems :
            /\ client \/ stored = <<>>
            /\ EnricherInit(data, mock, cached, client, stored)
    /\ DetectorInit(100)
    /\ IdleRules
    /\ ProducerInit
    /\ ServiceInit
    /\ HandlesInit
    /\ OrderInit

EnricherNext == \E get_ok \in BOOLEAN, setex_ok \in BOOLEAN : Enrich(get_ok, setex_ok)

\* one enricher, enrich applied to an event and then to its own result
EnricherSpec == EnricherInitAll /\ [][EnricherNext]_vars

\* hash(item_id) % 1000 + 100 at its ends
BaselineStocks == {100, 1099}

DetectorInitAll ==
    /\ PipelineInit
    /\ AlertInit("warning")
    /\ StorageInit(FullConfig)
    /\ WindowInit(1)
    /\ MessageInit(IdleMessage)
    /\ IdleEnricher
    /\ \E baseline \in BaselineStocks : DetectorInit(baseline)
    /\ IdleRules
    /\ ProducerInit
    /\ ServiceInit
    /\ HandlesInit
    /\ OrderInit

DetectorNext ==
    \/ \E data \in DetectorEvents : Detect(data)
    \/ \E data \in DetectorEvents, n \in 2..MaxRepeat :
           BatchDetect([i \in 1..n |-> data])

\* one detector under any sequence of detect and batch_detect calls
DetectorSpec == DetectorInitAll /\ [][DetectorNext]_vars

ProducerInitAll ==
    /\ PipelineInit
    /\ AlertInit("warning")
    /\ StorageInit(FullConfig)
    /\ WindowInit(1)
    /\ MessageInit(IdleMessage)
    /\ IdleEnricher
    /\ DetectorInit(100)
    /\ IdleRules
    /\ ProducerInit
    /\ ServiceInit
    /\ HandlesInit
    /\ OrderInit

ProducerNext ==
    \E value \in SendValues, key \in SendKeys, bootstrap \in Bootstraps,
       delivery \in Deliveries : SendMessage(value, key, bootstrap, delivery)

\* one KafkaClient under any sequence of send_message calls
ProducerSpec == ProducerInitAll /\ [][ProducerNext]_vars

ServiceInitAll ==
    /\ PipelineInit
    /\ AlertInit("warning")
    /\ StorageInit(FullConfig)
    /\ WindowInit(1)
    /\ MessageInit(IdleMessage)
    /\ IdleEnricher
    /\ DetectorInit(100)
    /\ IdleRules
    /\ ProducerInit
    /\ ServiceInit
    /\ HandlesInit
    /\ OrderInit

ServiceNext ==
    \/ \E item_id \in ItemIds, location_id \in LocationIds, quantity \in CallQuantities :
           StockIn(item_id, location_id, quantity)
    \/ \E item_id \in ItemIds, location_id \in LocationIds, quantity \in CallQuantities :
           StockOut(item_id, location_id, quantity)
    \/ \E item_id \in ItemIds, from_location_id \in LocationIds,
          to_location_id \in LocationIds, quantity \in CallQuantities :
           StockTransfer(item_id, from_location_id, to_location_id, quantity)
    \/ \E item_id \in ItemIds, location_id \in LocationIds, quantity \in CallQuantities :
           StockAdjustment(item_id, location_id, quantity)
    \/ \E movements_data \in BulkInputs : BulkMovements(movements_data)

\* the inventory service under any sequence of calls, one at a time
ServiceSpec == ServiceInitAll /\ [][ServiceNext]_vars

HandlesInitAll ==
    /\ PipelineInit
    /\ AlertInit("warning")
    /\ StorageInit(FullConfig)
    /\ WindowInit(1)
    /\ MessageInit(IdleMessage)
    /\ IdleEnricher
    /\ DetectorInit(100)
    /\ IdleRules
    /\ ProducerInit
    /\ ServiceInit
    /\ HandlesInit
    /\ OrderInit

HandlesNext ==
    \/ WorkerCreatesConsumer
    \/ \E reachable \in BOOLEAN : HealthCreatesConsumer(reachable)
    \/ HealthClosesConsumer
    \/ ManagerStops

\* the worker thread, the health thread and the manager's stop, interleaved
HandlesSpec == HandlesInitAll /\ [][HandlesNext]_vars

ProcessorInitAll ==
    /\ PipelineInit
    /\ AlertInit("warning")
    /\ StorageInit(FullConfig)
    /\ WindowInit(1)
    /\ \E data \in ProcessorInputs : MessageInit(data)
    /\ IdleEnricher
    /\ DetectorInit(100)
    /\ IdleRules
    /\ ProducerInit
    /\ ServiceInit
    /\ HandlesInit
    /\ OrderInit

WorkerPassNext ==
    \/ Validate
    \/ Process
    \/ DetectAndReturn
    \/ WorkerProcessBatch

\* one message through one pass of the worker: process_message, then
\* _process_batch's call of process_batch
WorkerPassSpec == MessageInitAll /\ [][WorkerPassNext]_vars

\* InventoryProcessor.process on its own, on any map
ProcessorSpec == ProcessorInitAll /\ [][ProcessAny]_vars

ConcurrentInitAll ==
    /\ PipelineInit
    /\ AlertInit("warning")
    /\ StorageInit(FullConfig)
    /\ WindowInit(1)
    /\ MessageInit(IdleMessage)
    /\ IdleEnricher
    /\ DetectorInit(100)
    /\ IdleRules
    /\ ProducerInit
    /\ ConcurrentInit
    /\ HandlesInit
    /\ OrderInit

ConcurrentNext ==
    \/ \E t \in Transactions, c \in ConcurrentCalls : TransactionReads(t, c)
    \/ \E t \in Transactions : TransactionWrites(t)

\* the inventory service with calls on one item and location running at
\* once, each once
ConcurrentSpec == ConcurrentInitAll /\ [][ConcurrentNext]_vars

OrderInitAll ==
    /\ PipelineInit
    /\ AlertInit("warning")
    /\ StorageInit(FullConfig)
    /\ WindowInit(1)
    /\ MessageInit(IdleMessage)
    /\ IdleEnricher
    /\ DetectorInit(100)
    /\ IdleRules
    /\ ProducerInit
    /\ ServiceInit
    /\ HandlesInit
    /\ OrderInit

OrderNext ==
    \/ \E new_status \in OrderStatuses : UpdateOrderStatus(new_status)
    \/ CancelOrder
    \/ \E stock \in StockSplits : CreatePickingTasks(stock)
    \/ \E task_id \in TaskIds, assigned_to \in Workers :
           AssignPickingTask(task_id, assigned_to)
    \/ \E task_id \in TaskIds, user \in Workers : StartPickingTask(task_id, user)
    \/ \E task_id \in TaskIds, quantity_picked \in 0..(MaxPick + 1), user \in Workers,
          stock_out_returns \in BOOLEAN :
           CompletePickingTask(task_id, quantity_picked, user, stock_out_returns)

\* the order service under any sequence of calls on one order
OrderSpec == OrderInitAll /\ [][OrderNext]_vars


----------------------------------------------------------------------------
(* Claims about the consumer worker and the pipeline manager *)

\* a strictly increasing sequence of offsets
Increasing(s) == \A i, j \in 1..Len(s) : i < j => s[i] < s[j]

\* C1 (its premise): the worker never attempts a send: no record reaches
\* process_batch and no alert record is produced, so no send of a batch can
\* fail.
C1_NoSendReached ==
    /\ processed_messages = <<>>
    /\ sentProcessed = <<>>
    /\ sentAlerts = <<>>

\* C2: every message covered by the committed offset has been passed through
\* process_message, and no message that is still in the in-flight batch or in
\* the not-yet-iterated remainder of a poll result is covered by the committed
\* offset (the enriched-record clause of the claim is C4's subject).
C2_CommittedNotInFlight ==
    \A o \in Range(batch) \cup Range(pack) \cup Range(handled) :
        o < committed => (o \in Range(handled) /\ o \notin Range(batch) \cup Range(pack))

\* C3: every record written to the input topic is eventually handed to
\* process_message, unless the process has been told to shut down.
C3_EveryRecordHandled ==
    \A o \in 0..(MaxLog - 1) :
        (Len(log) > o) ~> (o \in Range(handled) \/ signals > 0)

\* C4: when the last committed batch holds a message that failed validation,
\* every other message of that batch that passes validation has had its
\* enriched record sent to the processed topic.
C4_OthersStillSent ==
    lastCommit.committed =>
        ((\E m \in Range(lastCommit.batch) : ~validate_inventory_message(KindOf(m)))
            => \A m \in Range(lastCommit.batch) :
                   validate_inventory_message(KindOf(m)) => m \in Range(sentProcessed))

C6_AlertBeforeCommit ==
    \A o \in Range(handled) :
        (is_anomaly(KindOf(o)) /\ o < committed) => o \in Range(sentAlerts)

\* C29: for every message that passed validation and processing, the
\* record has been added to the aggregator's time windows by the time its
\* offset is committed.
C29_AggregatedBeforeCommit ==
    \A o \in Range(handled) :
        (validate_inventory_message(KindOf(o)) /\ o < committed)
            => \E i \in 1..Len(window) : window[i][2] = o

\* the worker never adds to an aggregator's window: process_message and
\* _process_batch call the processor, the enricher, the detector and the
\* producer only
WorkerLeavesWindowsAlone == [][window' = window]_vars

\* C7: the consumer handle is never closed while a batch is in flight, that is
\* while a batch is being collected, processed or awaiting its commit.
C7_ClosedOnlyWhenDrained ==
    consumer = "closed" => (batch = <<>> /\ wpc \notin {"process", "commit"})

\* the manager has completed shutdown
ShutdownComplete ==
    /\ ~mgrRunning
    /\ mpc = "exited"
    /\ ~running
    /\ consumer # "open"

\* C8: after a termination signal reaches a process whose main loop is
\* running, the manager eventually completes shutdown.
C8_SignalLeadsToShutdown == signalledRunning ~> ShutdownComplete

AppendStartsInvocationWhenFull ==
    [][Len(batch') > Len(batch)
          => /\ Len(batch') = Len(batch) + 1
             /\ (Len(batch') = BatchSize <=> wpc' = "process")]_vars

----------------------------------------------------------------------------
(* Claims about the alert manager *)

\* C9: between two acknowledge/resolve calls for an id, however many
\* create_alert calls are made for it and however they interleave, the id has
\* one alert in the set, with status active, and each channel's send is
\* invoked at most once for the id.
C9_CreateIdempotent ==
    /\ \A id \in AlertIds :
           createdSince[id] => (id \in DOMAIN active_alerts
                                /\ active_alerts[id].status = "active")
    /\ \A e \in BagToSet(sends) :
           /\ CopiesIn(e, sends) = 1
           /\ \A f \in BagToSet(sends) :
                  (f.id = e.id /\ f.gen = e.gen /\ f.channel = e.channel) => f = e

\* a second create_alert for an id arrived while the first call was suspended
\* with some of its sends done and some still to run
C9_Witness ==
    /\ lastCreate.op # 0
    /\ lastCreate.deduped
    /\ \E c \in calls :
           /\ c.id = lastCreate.id
           /\ c.gen = gen[c.id]
           /\ c.pending # {}
           /\ c.pending # Channels

\* C10: no channel's send is ever invoked for a create_alert call whose
\* severity ranks below min_notification_severity, and such a call still
\* leaves its alert in the active set.
C10_SeverityGate ==
    /\ \A e \in BagToSet(sends) :
           severity_levels(e.severity) >= severity_levels(min_notification_severity)
    /\ (/\ lastCreate.op # 0
        /\ severity_levels(lastCreate.severity)
               < severity_levels(min_notification_severity))
       => (/\ lastCreate.id \in DOMAIN active_alerts
           /\ active_alerts[lastCreate.id].status = "active"
           /\ \A e \in BagToSet(sends) : e.op # lastCreate.op)

\* a create_alert below the threshold has just inserted a new alert, while
\* notifications of another alert have been sent
C10_Witness ==
    /\ lastCreate.op # 0
    /\ ~lastCreate.deduped
    /\ severity_levels(lastCreate.severity) < severity_levels(min_notification_severity)
    /\ lastCreate.id \in DOMAIN active_alerts
    /\ sends # EmptyBag

\* C11: a create_alert call that has returned from its notifications returned
\* the alert it built, send was invoked on every configured channel whatever
\* the other channels did, and, until an acknowledge or resolve call for the
\* id, that alert is the one in the active set.
C11_FailuresIsolated ==
    lastReturn.op # 0 =>
        /\ lastReturn.returned = lastReturn.op
        /\ DOMAIN lastReturn.results = Channels
        /\ \A ch \in Channels :
              \E e \in BagToSet(sends) : e.op = lastReturn.op /\ e.channel = ch
        /\ gen[lastReturn.id] = lastReturn.gen =>
              /\ lastReturn.id \in DOMAIN active_alerts
              /\ active_alerts[lastReturn.id].serial = lastReturn.op

\* a call returned although one channel failed or raised and another did not,
\* and its alert is still the active one
C11_Witness ==
    /\ lastReturn.op # 0
    /\ \E ch \in Channels : lastReturn.results[ch] \in {"fail", "raise"}
    /\ \E ch \in Channels : lastReturn.results[ch] = "ok"
    /\ gen[lastReturn.id] = lastReturn.gen
    /\ lastReturn.id \in DOMAIN active_alerts

\* this step is a resolve_alert call
ResolveStep ==
    alertOps' = alertOps + 1 /\ lastOp'.op = alertOps' /\ lastOp'.kind = "resolve"

\* this step is a create_alert call for the id whose alert the last
\* acknowledge / resolve call resolved, and no alert of that id is in the set
CreateAfterResolveStep ==
    /\ lastOp.op > 0 /\ lastOp.kind = "resolve" /\ lastOp.returned
    /\ lastOp.id \notin DOMAIN active_alerts
    /\ alertOps' = alertOps + 1 /\ lastCreate'.op = alertOps'
    /\ lastCreate'.id = lastOp.id

\* C22: resolve_alert(id) for an id in the set sets the alert's status to
\* resolved, removes it from the set and returns true; for an absent id it
\* returns false and changes nothing; a create_alert with the same id after a
\* resolve inserts a new active alert and dispatches notifications again
\* (one task per channel, for a severity at or above the threshold).
C22_ResolveRemoves ==
    [][/\ ResolveStep =>
            IF lastOp'.id \in DOMAIN active_alerts
            THEN /\ lastOp'.returned
                 /\ lastOp'.alert.status = "resolved"
                 /\ DOMAIN active_alerts' = DOMAIN active_alerts \ {lastOp'.id}
                 /\ \A other \in DOMAIN active_alerts' :
                        active_alerts'[other] = active_alerts[other]
            ELSE /\ ~lastOp'.returned
                 /\ active_alerts' = active_alerts
                 /\ calls' = calls /\ sends' = sends
       /\ CreateAfterResolveStep =>
            /\ ~lastCreate'.deduped
            /\ lastCreate'.id \in DOMAIN active_alerts'
            /\ active_alerts'[lastCreate'.id].status = "active"
            /\ active_alerts'[lastCreate'.id].serial = alertOps'
            /\ IF severity_levels(lastCreate'.severity)
                      >= severity_levels(min_notification_severity)
               THEN \E c \in calls' : c.op = alertOps' /\ c.pending = Channels
               ELSE calls' = calls
      ]_vars

\* an alert was resolved, then created again under the same id, and the
\* notifications of the new alert are being dispatched
C22_Witness ==
    /\ lastOp.op > 0 /\ lastOp.kind = "resolve" /\ lastOp.returned
    /\ lastOp.alert.status = "resolved"
    /\ lastCreate.op > lastOp.op
    /\ lastCreate.id = lastOp.id
    /\ \E c \in calls : c.op = lastCreate.op

\* this step is an acknowledge_alert call
AcknowledgeStep ==
    alertOps' = alertOps + 1 /\ lastOp'.op = alertOps' /\ lastOp'.kind = "acknowledge"

\* C23: acknowledge_alert(id, user) for an id in the set sets the status to
\* acknowledged, records the user and the time, keeps the alert in the set
\* and returns true; for an absent id it returns false and leaves the set and
\* every alert unchanged.
C23_AcknowledgeKeeps ==
    [][AcknowledgeStep =>
          IF lastOp'.id \in DOMAIN active_alerts
          THEN /\ lastOp'.returned
               /\ DOMAIN active_alerts' = DOMAIN active_alerts
               /\ active_alerts'[lastOp'.id] =
                      [active_alerts[lastOp'.id] EXCEPT
                          !.status = "acknowledged",
                          !.acknowledged_by = lastOp'.user,
                          !.acknowledged_at = alertOps']
               /\ \A other \in DOMAIN active_alerts \ {lastOp'.id} :
                      active_alerts'[other] = active_alerts[other]
          ELSE /\ ~lastOp'.returned
               /\ active_alerts' = active_alerts
      ]_vars

\* an alert of the set was acknowledged and is still in the set
C23_Witness ==
    /\ lastOp.op > 0 /\ lastOp.kind = "acknowledge" /\ lastOp.returned
    /\ lastOp.id \in DOMAIN active_alerts
    /\ active_alerts[lastOp.id].status = "acknowledged"
    /\ active_alerts[lastOp.id].acknowledged_by = lastOp.user
    /\ active_alerts[lastOp.id].acknowledged_at = lastOp.op

\* ---- evaluate_rules

\* some condition of the rule matches the data
AnyMatch(rule) ==
    \E k \in 1..Len(rule.conditions) :
        condition_outcome(rule.conditions[k], rule_data) = "match"

\* a condition of the rule matches and none before it raised
MatchesBeforeRaising(rule) ==
    \E k \in 1..Len(rule.conditions) :
        /\ condition_outcome(rule.conditions[k], rule_data) = "match"
        /\ \A j \in 1..(k - 1) :
               condition_outcome(rule.conditions[j], rule_data) # "raise"

\* the rules evaluated so far that fired, in the order of alert_rules
FiredRules == SelectSeq([i \in 1..Len(rule_outcomes) |-> i],
                        LAMBDA i : rule_outcomes[i] = "fired")

\* the alert a rule's template describes, created by call number op
TemplateAlert(rule, op) ==
    [status |-> "active", severity |-> rule.severity, acknowledged_by |-> "none",
     acknowledged_at |-> 0, resolved_at |-> 0, serial |-> op]

\* C24, as stated: a rule fires exactly when one of its conditions matches
\* the data, every fired rule has its own alert in the returned list, built
\* from its template, and every rule before the one the loop is at has been
\* evaluated.
C24_FiresIffAnyMatches ==
    /\ awaiting = NoCall => Len(rule_outcomes) = rule_next - 1
    /\ \A i \in 1..Len(rule_outcomes) :
           rule_outcomes[i] = "fired" <=> AnyMatch(alert_rules[i])
    /\ Len(triggered_alerts) = Len(FiredRules)
    /\ \A n \in 1..Len(triggered_alerts) :
           LET rule == alert_rules[triggered_alerts[n].rule]
           IN /\ triggered_alerts[n].rule = FiredRules[n]
              /\ triggered_alerts[n].id = rule.name
              /\ \E op \in 1..MaxAlertOps :
                     triggered_alerts[n].alert = TemplateAlert(rule, op)

\* C24, amended: a rule fires exactly when one of its conditions matches
\* and neither an earlier condition nor the rule's severity raises; such a
\* raise is logged as an error of that rule alone.  Every fired rule has
\* one alert in the returned list, under the rule's id: built from the
\* rule's template, or the alert already active under that id.  Every rule
\* before the one the loop is at has been evaluated.
C24_FiresIffMatchesUnraised ==
    /\ awaiting = NoCall => Len(rule_outcomes) = rule_next - 1
    /\ \A i \in 1..Len(rule_outcomes) :
           LET rule == alert_rules[i]
           IN /\ rule_outcomes[i] = "fired" <=>
                     MatchesBeforeRaising(rule) /\ rule.severity \in Severities
              /\ rule_outcomes[i] = "not_fired" <=>
                     \A k \in 1..Len(rule.conditions) :
                         condition_outcome(rule.conditions[k], rule_data) = "no"
              /\ rule_outcomes[i] # "error" =>
                     (rule_outcomes[i] = "fired" <=> AnyMatch(rule))
    /\ Len(triggered_alerts) = Len(FiredRules)
    /\ \A n \in 1..Len(triggered_alerts) :
           LET entry == triggered_alerts[n]
               rule == alert_rules[entry.rule]
           IN /\ entry.rule = FiredRules[n]
              /\ entry.id = rule.name
              /\ IF entry.deduped
                 THEN \/ entry.alert = EarlierAlert
                      \/ \E m \in 1..(n - 1) :
                             /\ triggered_alerts[m].id = entry.id
                             /\ triggered_alerts[m].alert = entry.alert
                 ELSE \E op \in 1..MaxAlertOps :
                         entry.alert = TemplateAlert(rule, op)

\* evaluate_rules has returned: a rule raised, and the rule after it fired
\* and has its alert in the list
C24_Witness ==
    /\ awaiting = NoCall
    /\ rule_next = Len(alert_rules) + 1
    /\ Len(rule_outcomes) = 2
    /\ rule_outcomes[1] = "error"
    /\ rule_outcomes[2] = "fired"
    /\ Len(triggered_alerts) = 1
    /\ ~triggered_alerts[1].deduped

\* evaluate_rules has returned, and two rules of one id fired: the second
\* has the first one's alert
FiredOnActiveId ==
    /\ awaiting = NoCall
    /\ rule_next = Len(alert_rules) + 1
    /\ Len(triggered_alerts) = 2
    /\ triggered_alerts[2].deduped
    /\ triggered_alerts[2].alert = triggered_alerts[1].alert
    /\ triggered_alerts[2].alert.severity #
           alert_rules[triggered_alerts[2].rule].severity

\* this step is a create_alert call for an id whose stored alert is
\* acknowledged
CreateOverAcknowledgedStep ==
    /\ alertOps' = alertOps + 1 /\ lastCreate'.op = alertOps'
    /\ lastCreate'.id \in DOMAIN active_alerts
    /\ active_alerts[lastCreate'.id].status = "acknowledged"

\* C31: create_alert for an id whose stored alert is acknowledged does not
\* return the stored alert: it puts a new active alert in its place, without
\* the acknowledgement stamp, and dispatches its notifications when the
\* severity is at or above the threshold (one task per channel), none
\* otherwise.
C31_CreateReplacesAcknowledged ==
    [][CreateOverAcknowledgedStep =>
          /\ ~lastCreate'.deduped
          /\ lastCreate'.returned = alertOps'
          /\ lastCreate'.returned # active_alerts[lastCreate'.id].serial
          /\ active_alerts'[lastCreate'.id] =
                 [status |-> "active", severity |-> lastCreate'.severity,
                  acknowledged_by |-> "none", acknowledged_at |-> 0,
                  resolved_at |-> 0, serial |-> alertOps']
          /\ \A other \in DOMAIN active_alerts \ {lastCreate'.id} :
                 active_alerts'[other] = active_alerts[other]
          /\ IF severity_levels(lastCreate'.severity)
                    >= severity_levels(min_notification_severity)
             THEN \E c \in calls' : c.op = alertOps' /\ c.pending = Channels
             ELSE calls' = calls
      ]_vars

\* an alert was acknowledged, then created again under the same id: the set
\* holds the new alert and its notifications are being dispatched
C31_Witness ==
    /\ lastOp.op > 0 /\ lastOp.kind = "acknowledge" /\ lastOp.returned
    /\ lastCreate.op = lastOp.op + 1
    /\ lastCreate.id = lastOp.id
    /\ ~lastCreate.deduped
    /\ active_alerts[lastCreate.id].status = "active"
    /\ active_alerts[lastCreate.id].acknowledged_by = "none"
    /\ \E c \in calls : c.op = lastCreate.op

----------------------------------------------------------------------------
(* Claims about the storage manager *)

\* C12: the map store_data returns has exactly one boolean entry per target
\* adapter of the record's data type; each target that was built received
\* exactly one write, of that record, whatever happened to the other targets,
\* and its entry is true exactly when that write returned True; a target that
\* was not built, or had no connection, has the entry false.
C12_PartialFailure ==
    (storeRet.kind = "store" /\ ~storeRet.raised) =>
        LET target_adapters == Range(get_target_adapters(storeRet.type))
            to(a) == {w \in BagToSet(writes) : w.adapter = a}
        IN  /\ DOMAIN storeRet.result = target_adapters
            /\ \A a \in target_adapters : storeRet.result[a] \in BOOLEAN
            /\ \A w \in BagToSet(writes) : w.adapter \in target_adapters \cap adapters
            /\ \A a \in target_adapters \ adapters : ~storeRet.result[a]
            /\ \A a \in target_adapters \cap adapters :
                 /\ Cardinality(to(a)) = 1
                 /\ \A w \in to(a) :
                      /\ CopiesIn(w, writes) = 1
                      /\ w.records = <<storeRet.input>>
                      /\ storeRet.result[a] <=> (w.outcome = "ok")
                      /\ ~w.connected => ~storeRet.result[a]

\* a record with two targets: the write to one raised, the other succeeded
C12_Witness ==
    /\ storeRet.kind = "store"
    /\ ~storeRet.raised
    /\ \E a, b \in DOMAIN storeRet.result :
         /\ storeRet.result[a] /\ ~storeRet.result[b]
         /\ \E w \in BagToSet(writes) : w.adapter = b /\ w.outcome = "raise"

\* C13: with no data type supplied, the type is that of the first rule the
\* record matches, in the order metrics, alerts, aggregated, performance,
\* logs, and events otherwise; the returned map has exactly the adapters the
\* routing table lists for the type, the warehouse alone for an unknown type.
C13_InferenceAndRouting ==
    (storeRet.kind = "store" /\ ~storeRet.raised) =>
        LET data == storeRet.input
            type == storeRet.type
            targets == DOMAIN storeRet.result
        IN  /\ storeRet.data_type = "" =>
                 /\ type = "metrics" <=> data.metric_name
                 /\ type = "alerts" <=>
                      /\ ~data.metric_name
                      /\ data.severity \/ Contains("alert", lower(data.event_type))
                 /\ type = "aggregated" <=>
                      /\ type \notin {"metrics", "alerts"}
                      /\ Contains("aggregated", lower(data.data_type))
                 /\ type = "performance" <=>
                      /\ type \notin {"metrics", "alerts", "aggregated"}
                      /\ Contains("performance", lower(data.source))
                 /\ type = "logs" <=>
                      /\ type \notin {"metrics", "alerts", "aggregated", "performance"}
                      /\ data.message
                 /\ type \in DataTypes
            /\ storeRet.data_type # "" => type = storeRet.data_type
            /\ type = "metrics" => targets = {"influxdb"}
            /\ type = "logs" => targets = {"elasticsearch"}
            /\ type = "alerts" => targets = {"elasticsearch", "clickhouse"}
            /\ type \in {"events", "aggregated"} => targets = {"clickhouse"}
            /\ type = "performance" => targets = {"influxdb", "clickhouse"}
            /\ type \notin DataTypes => targets = {"clickhouse"}

\* a record that matches the alerts rule and the performance rule was typed
\* alerts and answered for the search index and the warehouse
C13_Witness ==
    /\ storeRet.kind = "store"
    /\ storeRet.data_type = ""
    /\ ~storeRet.raised
    /\ storeRet.input.severity
    /\ storeRet.input.source = "performance_monitor"
    /\ storeRet.type = "alerts"
    /\ DOMAIN storeRet.result = {"elasticsearch", "clickhouse"}

\* C14 (as stated): batch_store_data without a data type issues exactly one
\* adapter batch_store call per pair of an inferred type and a target adapter
\* of that type, holding exactly the records of the type in their order, and
\* no other call; an adapter's entry is true exactly when every batch sent
\* to it succeeded.
C14_OneBatchPerPair ==
    (storeRet.kind = "batch" /\ storeRet.data_type = "" /\ ~storeRet.raised) =>
        LET data_list == storeRet.input
            types == {infer_data_type(data_list[i]) : i \in 1..Len(data_list)}
            of(t) == SelectSeq(data_list, LAMBDA d : infer_data_type(d) = t)
            sent(t, a) == {w \in BagToSet(writes) : w.type = t /\ w.adapter = a}
        IN  /\ \A t \in types : \A a \in Range(get_target_adapters(t)) :
                 /\ Cardinality(sent(t, a)) = 1
                 /\ \A w \in sent(t, a) : CopiesIn(w, writes) = 1 /\ w.records = of(t)
            /\ \A w \in BagToSet(writes) :
                 w.type \in types /\ w.adapter \in Range(get_target_adapters(w.type))
            /\ \A a \in DOMAIN storeRet.result :
                 storeRet.result[a] <=>
                     \A w \in BagToSet(writes) : w.adapter = a => w.outcome = "ok"

\* C14 (amended): the one call per pair is issued for the target adapters
\* that were built, none for the others; the map has an entry for every
\* target adapter of every inferred type, true exactly when the adapter was
\* built and every batch sent to it succeeded.
C14_OneBatchPerBuiltPair ==
    (storeRet.kind = "batch" /\ storeRet.data_type = "" /\ ~storeRet.raised) =>
        LET data_list == storeRet.input
            types == {infer_data_type(data_list[i]) : i \in 1..Len(data_list)}
            of(t) == SelectSeq(data_list, LAMBDA d : infer_data_type(d) = t)
            sent(t, a) == {w \in BagToSet(writes) : w.type = t /\ w.adapter = a}
        IN  /\ \A t \in types : \A a \in Range(get_target_adapters(t)) \cap adapters :
                 /\ Cardinality(sent(t, a)) = 1
                 /\ \A w \in sent(t, a) : CopiesIn(w, writes) = 1 /\ w.records = of(t)
            /\ \A w \in BagToSet(writes) :
                 /\ w.type \in types
                 /\ w.adapter \in Range(get_target_adapters(w.type)) \cap adapters
            /\ DOMAIN storeRet.result = UNION {Range(get_target_adapters(t)) : t \in types}
            /\ \A a \in DOMAIN storeRet.result :
                 storeRet.result[a] <=>
                     /\ a \in adapters
                     /\ \A w \in BagToSet(writes) : w.adapter = a => w.outcome = "ok"

\* a batch of two types that share an adapter returned: one of the adapter's
\* two batches succeeded, the other did not, and another target was not built
C14_Witness ==
    /\ storeRet.kind = "batch"
    /\ storeRet.data_type = ""
    /\ ~storeRet.raised
    /\ \E a \in DOMAIN storeRet.result :
         /\ ~storeRet.result[a]
         /\ \E v, w \in BagToSet(writes) :
              /\ v.adapter = a /\ w.adapter = a
              /\ v.type # w.type
              /\ v.outcome = "ok" /\ w.outcome # "ok"
    /\ \E b \in DOMAIN storeRet.result : b \notin adapters

\* ---- construction

\* the time-series adapter is configured and its token is missing
TokenMissing ==
    "influxdb" \in DOMAIN config /\ config["influxdb"].token = NoToken

\* C25: when the time-series adapter is configured without its token, no
\* storage manager runs: none connects and none takes a store call.
C25_MissingTokenStopsStartup ==
    TokenMissing => /\ connected = {}
                    /\ call = NoStore
                    /\ storeRet = NoRet

\* a manager configured without the token has connected its other adapters
\* and returned from a store call, the time-series adapter absent
RunningWithoutTimeSeries ==
    /\ TokenMissing
    /\ "influxdb" \notin adapters
    /\ connected # {}
    /\ storeRet # NoRet

----------------------------------------------------------------------------
(* Claims about the time window *)

\* C15: after add(t, x), whatever the order of the timestamps of the add
\* calls, the window holds no entry with a timestamp earlier than
\* t - window_size.
C15_NoStaleEntry ==
    lastAdd # NoOffset =>
        \A i \in 1..Len(window) : window[i][1] >= lastAdd - window_size

\* C16: the front entry of the window has the smallest timestamp of all
\* entries, and while the add calls came with non-decreasing timestamps the
\* entries are in non-decreasing timestamp order.
C16_FrontOldest ==
    /\ \A i \in 1..Len(window) : window[1][1] <= window[i][1]
    /\ ordered => \A i, j \in 1..Len(window) : i <= j => window[i][1] <= window[j][1]

\* the part of C15 and C16 that holds: with non-decreasing timestamps the
\* entries are in timestamp order and none is older than the cutoff
OrderedInputsKeepWindow ==
    ordered =>
        /\ \A i, j \in 1..Len(window) : i <= j => window[i][1] <= window[j][1]
        /\ \A i \in 1..Len(window) : window[i][1] >= lastAdd - window_size

----------------------------------------------------------------------------
(* Claims about process_message, the processor and the enricher *)

\* C17: for a processed event with numeric quantity q, quantity_abs is |q|,
\* quantity_normalized is -|q| for stock_out and +|q| for stock_in,
\* adjustment and transfer.
C17_QuantityNormalization ==
    processed_data.kind = "processed" =>
        LET q == message.quantity.value
            magnitude == IF q < 0 THEN 0 - q ELSE q
        IN  /\ processed_data.quantity_abs = magnitude
            /\ message.action = "stock_out" =>
                 processed_data.quantity_normalized = 0 - magnitude
            /\ message.action \in {"stock_in", "adjustment", "transfer"} =>
                 processed_data.quantity_normalized = magnitude

\* a stock_out with a negative quantity was processed
C17_Witness ==
    /\ processed_data.kind = "processed"
    /\ message.quantity.value < 0
    /\ message.action = "stock_out"
    /\ processed_data.quantity_normalized = message.quantity.value

\* the instant a timestamp denotes, in UTC
instant_of(timestamp) ==
    IF timestamp.kind = "epoch" THEN timestamp.seconds
    ELSE timestamp.wall - timestamp.utcoffset

\* C19: every accepted encoding of an instant (ISO-8601 with Z or with a UTC
\* offset, epoch seconds) gives the same business_context, the one whose hour
\* and day_of_week are those of the instant expressed in UTC.
C19_ContextOfUtcInstant ==
    stage = "processed" /\ message.timestamp.kind \in {"epoch", "iso"} =>
        processed_data.business_context =
            get_business_context([wall |-> instant_of(message.timestamp), utcoffset |-> 0])

\* the Z form and the epoch form of an instant give the context of the
\* instant in UTC
ZAndEpochAgree ==
    /\ stage = "processed"
    /\ \/ message.timestamp.kind = "epoch"
       \/ message.timestamp.kind = "iso" /\ message.timestamp.suffix = "Z"
    => processed_data.business_context =
           get_business_context([wall |-> instant_of(message.timestamp), utcoffset |-> 0])

\* item_id, action, quantity and timestamp are present, the action is one
\* of the four, the quantity is numeric
RequiredAndWellTyped(data) ==
    /\ data.item_id # "absent"
    /\ data.action \in {"stock_in", "stock_out", "adjustment", "transfer"}
    /\ data.quantity.kind \in {"number", "numeric_string"}
    /\ data.timestamp.kind # "absent"

\* C20 as stated: a message is accepted if and only if its four required
\* fields are present, its action is one of the four and its quantity is
\* numeric; a rejected message gives no processed record and no alert.
C20_AcceptedIffWellTyped ==
    stage # "received" =>
        /\ stage # "rejected" <=> RequiredAndWellTyped(message)
        /\ stage = "rejected" => returned = "None" /\ ~alerted

\* C20, amended: a message is accepted if and only if its four required
\* fields are present, its action is one of the four, its quantity is numeric
\* and it is not a stock_in with a negative quantity; a rejected message
\* gives no processed record and no alert.
C20_AcceptedIffValid ==
    stage # "received" =>
        /\ stage # "rejected" <=>
               /\ RequiredAndWellTyped(message)
               /\ ~(message.action = "stock_in" /\ message.quantity.value < 0)
        /\ stage = "rejected" => returned = "None" /\ ~alerted

\* a stock_in with all four fields and a negative quantity was rejected
C20_Witness ==
    /\ stage = "rejected"
    /\ RequiredAndWellTyped(message)
    /\ message.action = "stock_in"
    /\ message.quantity.value < 0
    /\ returned = "None"

\* the fields enrich computes
ComputedFields ==
    {"item_details", "location_details", "classification", "risk_assessment",
     "seasonal_context"}

\* C18: enrichment is idempotent: for every processed event and any cache
\* contents, enriching the result of enrich again gives the same item_details,
\* location_details, classification, risk_assessment and seasonal_context.
C18_EnrichIdempotent ==
    Len(enrichments) = 2 =>
        \A field \in ComputedFields : enrichments[2][field] = enrichments[1][field]

\* the second enrichment changes nothing when the Redis get of the two calls
\* ended alike (both returned or both raised), or there is no Redis client
IdempotentWhenRedisAnswersAlike ==
    Len(enrichments) = 2 /\ get_raised[1] = get_raised[2] =>
        \A field \in ComputedFields : enrichments[2][field] = enrichments[1][field]

\* an event was enriched twice, the first call generating and caching the
\* details of a high-value item moved in bulk
EnrichedTwiceFromEmptyCaches ==
    /\ Len(enrichments) = 2
    /\ enrichments[1].item_details = item_mock
    /\ "I1" \in DOMAIN item_cache
    /\ enrichments[2].risk_assessment.factors = <<"high_value_item", "bulk_transaction">>

\* this step is an enrich call for an item the in-process cache holds
LookupWithL1EntryStep ==
    /\ Len(enrichments') = Len(enrichments) + 1
    /\ event.item_id \in DOMAIN item_cache

\* C33: whenever the in-process cache holds an entry for the item, the
\* lookup returns that entry, whatever the shared cache holds.
C33_L1EntryReturned ==
    [][LookupWithL1EntryStep =>
          enrichments'[Len(enrichments')].item_details = item_cache[event.item_id]
      ]_vars

\* the stand-in is generated only when both caches miss: an enrichment that
\* stored a new entry in the in-process cache found the item in neither
StandInOnlyWhenBothMiss ==
    [][(Len(enrichments') = Len(enrichments) + 1
           /\ DOMAIN item_cache' # DOMAIN item_cache)
          => /\ event.item_id \notin DOMAIN item_cache
             /\ (~redis.client \/ get_raised'[Len(get_raised')]
                    \/ event.item_id \notin DOMAIN redis.items)
      ]_vars

\* the in-process cache and the shared cache hold different details for the
\* item, and the lookup returned the shared cache's
L2EntryReturnedOverL1 ==
    /\ Len(enrichments) >= 1
    /\ event.item_id \in DOMAIN item_cache
    /\ enrichments[Len(enrichments)].item_details # item_cache[event.item_id]

\* C34: for every action other than stock_out, quantity_normalized is the
\* quantity as supplied, sign included.
C34_SignKeptUnlessStockOut ==
    (stage \in {"processed", "returned"} /\ message.action # "stock_out")
        => processed_data.quantity_normalized = float(quantity_or_default(message))

\* for every action other than stock_out, quantity_normalized is the
\* magnitude of the quantity
MagnitudeUnlessStockOut ==
    (stage \in {"processed", "returned"} /\ message.action # "stock_out")
        => processed_data.quantity_normalized = abs(float(quantity_or_default(message)))

\* a negative adjustment was processed
NegativeAdjustmentProcessed ==
    /\ stage = "processed"
    /\ message.action = "adjustment"
    /\ float(message.quantity) < 0

\* the timestamp of the message is one _parse_timestamp cannot parse: it is
\* missing, or a text that is neither a date nor a number
Unparseable(timestamp) == timestamp.kind \notin {"epoch", "iso"}

\* C35: when the timestamp cannot be parsed, process sets timestamp_parsed
\* to the current time and sets processing.timestamp_fallback; when it can,
\* the flag is not set.
C35_FallbackFlagged ==
    stage = "processed" =>
        ("timestamp_fallback" \in processed_data.processing
            <=> Unparseable(message.timestamp))

\* a timestamp that cannot be parsed is replaced by a time in UTC, and no
\* parsed timestamp is flagged
FallbackIsUtcAndUnflagged ==
    stage = "processed" =>
        /\ Unparseable(message.timestamp) => processed_data.timestamp_parsed.utcoffset = 0
        /\ "timestamp_fallback" \notin processed_data.processing

\* C36: process returns a processed event for every map and never raises.
C36_ProcessNeverRaises == stage # "raised"

\* process returns for every map whose quantity is missing or numeric and
\* whose unit_price is missing or numeric, whatever the timestamp is
ReturnsForNumericFields ==
    (stage # "received"
        /\ float_ok(quantity_or_default(message))
        /\ message.unit_price.kind \in {"absent", "number"})
        => stage = "processed"

\* process ended with an exception on a map whose only invalid field is the
\* unit_price
RaisedOnUnitPrice ==
    /\ stage = "raised"
    /\ float_ok(quantity_or_default(message))
    /\ message.unit_price.kind = "text"

RejectedLeavesWindowAlone ==
    (stage = "flushed" /\ ~validate_message(message))
        => (data_window = <<>> /\ detect_calls = 0)

----------------------------------------------------------------------------
(* Claims about the anomaly detector *)

\* the event of the last detect call
last_detected == data_window[Len(data_window)]

\* the last detect call was for a stock_out of a high-value item, in bulk,
\* outside business hours
BulkNightStockOut ==
    /\ detect_calls > 0
    /\ last_detected.action = "stock_out"
    /\ last_detected.item_details.high_value
    /\ last_detected.quantity_abs >= 1000
    /\ ~last_detected.is_business_hours

\* C21: for a stock_out of a high-value item in the bulk category outside
\* business hours, enrichment gives the risk factors high_value_item,
\* bulk_transaction and after_hours with level high, and detect returns an
\* anomaly of type high_value_risk_combination with severity high.
C21_HighValueCombinationReturned ==
    BulkNightStockOut =>
        /\ {"high_value_item", "bulk_transaction", "after_hours"}
               \subseteq Range(last_detected.risk_assessment.factors)
        /\ last_detected.risk_assessment.level = "high"
        /\ best_anomaly.anomaly_type = "high_value_risk_combination"
        /\ best_anomaly.severity = "high"

\* the enrichment half of C21, and the combination is among the hits
BulkNightCombinationAmongHits ==
    BulkNightStockOut =>
        /\ last_detected.risk_assessment.factors
               = <<"high_value_item", "bulk_transaction", "after_hours">>
        /\ last_detected.risk_assessment.level = "high"
        /\ \E i \in 1..Len(anomalies) :
               /\ anomalies[i].anomaly_type = "high_value_risk_combination"
               /\ anomalies[i].severity = "high"

\* with enough stock received before, the combination is what detect returns
BulkNightCombinationReturned ==
    /\ BulkNightStockOut
    /\ best_anomaly.anomaly_type = "high_value_risk_combination"

\* severity high over medium over low
SeverityRank(severity) ==
    CASE severity = "high" -> 3 [] severity = "medium" -> 2 [] OTHER -> 1

\* hit a comes before hit b at index distance: higher confidence, then
\* higher severity
Outranks(a, b) ==
    \/ Less(b.confidence, a.confidence)
    \/ /\ ~Less(a.confidence, b.confidence)
       /\ SeverityRank(a.severity) > SeverityRank(b.severity)

\* C30: when several detectors flag the event, detect returns the hit with
\* the highest confidence; among hits of equal confidence the one with the
\* higher severity; among hits equal in both the one whose detector runs
\* earliest.
C30_TieBreak ==
    Len(anomalies) > 0 =>
        \E i \in 1..Len(anomalies) :
            /\ best_anomaly = anomalies[i]
            /\ \A j \in 1..Len(anomalies) :
                   \/ j = i
                   \/ Outranks(anomalies[i], anomalies[j])
                   \/ ~Outranks(anomalies[j], anomalies[i]) /\ i < j

\* detect returns the earliest of the hits with the highest confidence
FirstOfHighestConfidence ==
    Len(anomalies) > 0 =>
        \E i \in 1..Len(anomalies) :
            /\ best_anomaly = anomalies[i]
            /\ \A j \in 1..Len(anomalies) :
                   ~Less(anomalies[i].confidence, anomalies[j].confidence)
            /\ \A j \in 1..(i - 1) :
                   Less(anomalies[j].confidence, anomalies[i].confidence)

\* two hits of equal confidence and different severity
EqualConfidenceHits ==
    \E i, j \in 1..Len(anomalies) :
        /\ anomalies[i].confidence = anomalies[j].confidence
        /\ anomalies[i].severity # anomalies[j].severity

----------------------------------------------------------------------------
(* Claims about the Kafka client *)

\* C26: every send_message call ends by returning True or False; none ends
\* with an exception.
C26_SendReturnsBoolean == last_send.outcome \in {"none", "true", "false"}

\* a serializable value on a producer that exists is answered with True
\* when the send is confirmed and with False when it is not
SerializableSendReturnsBoolean ==
    (last_send # NoSend /\ last_send.outcome # "NoBrokersAvailable"
        /\ ~json_dumps_raises(last_send.value))
    => last_send.outcome \in {"true", "false"}

\* a send of the enriched record ended with TypeError
SendRaisedTypeError == last_send.outcome = "TypeError"

----------------------------------------------------------------------------
(* Claims about the inventory service *)

\* the arguments of the last call
arg_item == last_call.args[1]
arg_location == last_call.args[2]
arg_destination == last_call.args[3]
arg_quantity == last_call.args[4]

\* the last call was a stock_out or an adjustment, of an item and at a
\* location that exist, that would have made the stock level negative
WouldGoNegative ==
    /\ last_call.op \in {"stock_out", "stock_adjustment"}
    /\ found(arg_item, arg_location)
    /\ IF last_call.op = "stock_out"
       THEN arg_quantity > 0
            /\ quantity_at(last_call.before, arg_location) - arg_quantity < 0
       ELSE quantity_at(last_call.before, arg_location) + arg_quantity < 0

\* C27: every StockLevel quantity is at least zero after any sequence of
\* service calls, and a stock_out or adjustment that would make one negative
\* has raised ValueError and left the three tables as they were.
C27_StockNeverNegative ==
    /\ \A location_id \in DOMAIN stock_levels : stock_levels[location_id] >= 0
    /\ WouldGoNegative => /\ last_call.raised = "ValueError"
                          /\ Database = last_call.before

\* a stock_out of more than the location holds was refused, after stock had
\* been received there
C27_Witness ==
    /\ WouldGoNegative
    /\ last_call.op = "stock_out"
    /\ quantity_at(last_call.before, arg_location) > 0
    /\ last_call.raised = "ValueError"

\* an adjustment below zero at a location without a stock level was refused
AdjustmentRefusedWithoutRow ==
    /\ WouldGoNegative
    /\ last_call.op = "stock_adjustment"
    /\ arg_location \notin DOMAIN last_call.before.stock_levels
    /\ arg_location \notin DOMAIN stock_levels

\* the item's total stock over all locations
total_stock(db) == quantity_at(db, 1) + quantity_at(db, 2)

\* the last call was a stock_transfer that returned
TransferSucceeded == last_call.op = "stock_transfer" /\ last_call.raised = "none"

\* C28: a stock_transfer that returned has lowered the source's stock by
\* its quantity and raised the destination's by the same, the total
\* unchanged, and appended two movements with action transfer; a
\* stock_transfer that raised has left every table as it was, and one with
\* equal locations, too little capacity at the destination or too little
\* stock at the source has raised.
C28_TransferMovesExactly ==
    last_call.op = "stock_transfer" =>
        LET before == last_call.before
            n == Len(before.movements)
        IN /\ TransferSucceeded =>
                /\ arg_quantity > 0
                /\ quantity_at(Database, arg_location)
                       = quantity_at(before, arg_location) - arg_quantity
                /\ quantity_at(Database, arg_destination)
                       = quantity_at(before, arg_destination) + arg_quantity
                /\ total_stock(Database) = total_stock(before)
                /\ Len(movements) = n + 2
                /\ SubSeq(movements, 1, n) = before.movements
                /\ movements[n + 1].action = "transfer"
                /\ movements[n + 1].location = arg_location
                /\ movements[n + 1].quantity = 0 - arg_quantity
                /\ movements[n + 2].action = "transfer"
                /\ movements[n + 2].location = arg_destination
                /\ movements[n + 2].quantity = arg_quantity
           /\ ~TransferSucceeded => Database = before
           /\ arg_location = arg_destination => ~TransferSucceeded
           /\ (/\ found(arg_item, arg_location)
               /\ quantity_at(before, arg_location) < arg_quantity)
                  => ~TransferSucceeded
           /\ (/\ found(arg_item, arg_destination)
               /\ before.current_utilization[arg_destination] + arg_quantity
                      > capacity(arg_destination))
                  => ~TransferSucceeded

\* a transfer moved a part of the source's stock to the destination
C28_Witness ==
    /\ TransferSucceeded
    /\ quantity_at(Database, arg_location) > 0
    /\ quantity_at(Database, arg_destination) > 0

\* a transfer the source could serve was refused for the destination's
\* capacity
TransferRefusedForCapacity ==
    /\ last_call.op = "stock_transfer"
    /\ last_call.raised = "ValueError"
    /\ arg_location # arg_destination
    /\ found(arg_item, arg_location) /\ found(arg_item, arg_destination)
    /\ arg_quantity > 0
    /\ quantity_at(last_call.before, arg_location) >= arg_quantity

\* the sum of the signed quantities of the movements
RECURSIVE signed_total(_)
signed_total(ms) ==
    IF ms = <<>> THEN 0 ELSE Head(ms).quantity + signed_total(Tail(ms))

\* C39: under any interleaving of stock_in, stock_out and stock_adjustment
\* transactions on one item and location, the StockLevel quantity is its
\* initial value plus the sum of the signed quantities of the committed
\* movements, and each movement's new_quantity is its previous_quantity
\* plus its signed quantity.
C39_NoLostUpdate ==
    /\ quantity_at(Database, 1) = InitialStock + signed_total(movements)
    /\ \A i \in DOMAIN movements :
          movements[i].new_quantity = movements[i].previous_quantity + movements[i].quantity

\* each movement is consistent in itself, and the stock level is the
\* new_quantity of the movement committed last
LastWriterWins ==
    /\ \A i \in DOMAIN movements :
          movements[i].new_quantity = movements[i].previous_quantity + movements[i].quantity
    /\ movements # <<>> => quantity_at(Database, 1) = movements[Len(movements)].new_quantity

\* two stock_in calls committed and the stock level shows only one of them
StockInLost ==
    /\ Len(movements) = 2
    /\ \A i \in DOMAIN movements : movements[i].action = "stock_in"
    /\ quantity_at(Database, 1) < InitialStock + signed_total(movements)

\* the calls that did not overlap leave the sum intact: a movement that
\* was computed from the stock level its predecessor left
SumKeptWithoutOverlap ==
    (\A i \in DOMAIN movements :
        movements[i].previous_quantity =
            IF i = 1 THEN InitialStock ELSE movements[i - 1].new_quantity)
        => quantity_at(Database, 1) = InitialStock + signed_total(movements)

----------------------------------------------------------------------------
(* Claims about the consumer handles of the process *)

\* the handles built with the worker's group on the inventory topic
InWorkerGroup ==
    {i \in 1..Len(handles) :
        /\ worker_consumer # 0
        /\ handles[i].group_id = handles[worker_consumer].group_id
        /\ handles[i].topics = handles[worker_consumer].topics}

\* C32: the worker's consumer is the only handle the process builds in the
\* worker's consumer group on the inventory topic.
C32_WorkerAloneInGroup == InWorkerGroup \subseteq {worker_consumer}

\* the health check's test consumer and the worker's consumer are open at
\* the same time, in one group on one topic
TwoOpenInGroup ==
    \E i \in InWorkerGroup :
        /\ i # worker_consumer
        /\ handles[i].open /\ handles[worker_consumer].open

\* the manager has stopped and the worker's handle was closed by it
WorkerHandleClosedAtStop ==
    (~manager_running /\ worker_consumer # 0) => ~handles[worker_consumer].open

----------------------------------------------------------------------------
(* Claims about the order service *)

\* the transitions of an order's status: the chain from pending to
\* returned, and cancelled from the first four statuses
StatusChain ==
    <<"pending", "confirmed", "processing", "picking", "packed", "shipped",
      "delivered", "returned">>

StatusTransitions ==
    {<<StatusChain[i], StatusChain[i + 1]>> : i \in 1..(Len(StatusChain) - 1)}
        \cup {<<old_status, "cancelled">> :
                 old_status \in {"pending", "confirmed", "processing", "picking"}}

\* C40: whatever OrderService call runs, the order's status changes only
\* along pending, confirmed, processing, picking, packed, shipped,
\* delivered, returned, or to cancelled from one of the first four, so that
\* cancelled and returned are terminal; and a change appends exactly one
\* history record with the old status and the new one, while a call that
\* leaves the status leaves the history.
C40_StatusTransitions ==
    [][IF order_status' # order_status
       THEN /\ <<order_status, order_status'>> \in StatusTransitions
            /\ status_history' = Append(status_history,
                                        [from_status |-> order_status,
                                         to_status |-> order_status'])
       ELSE status_history' = status_history]_vars

\* the last picking task was completed and the order went to packed, its
\* history being the chain so far
C40_Witness ==
    /\ last_order_call = [op |-> "complete_picking_task", raised |-> "none"]
    /\ order_status = "packed"
    /\ Len(status_history) = 5

\* the last record of the history is the order's status, and each record
\* starts where its predecessor ended
HistoryIsAChain ==
    /\ status_history[Len(status_history)].to_status = order_status
    /\ \A i \in 2..Len(status_history) :
          status_history[i].from_status = status_history[i - 1].to_status

\* an order was cancelled while it was being picked
CancelledWhilePicking ==
    /\ order_status = "cancelled"
    /\ \E i \in DOMAIN picking_tasks : picking_tasks[i].status = "in_progress"

====
